---- MODULE Spec2Model ----
(***************************************************************************)
(* Model of fipy.ngsi.entity (src/fipy/ngsi/entity.py): NGSI attributes,   *)
(* entities built from the two wire shapes, NGSI JSON serialisation and    *)
(* entity series.  The classes are Pydantic (v1) models, so the model      *)
(* includes the field validation Pydantic runs when a model is built.      *)
(*                                                                         *)
(* Python values are records [ty, q, h, s, items, sub]:                    *)
(*   ty   the Python class name of the value;                              *)
(*   q,h  the value of a bool, int or float: q = 0 is the number h/2,      *)
(*        q = 1 is 2^53 + h/2, q = 2 is an int beyond the range of a       *)
(*        double (10^309), q = 3 is the h-th of the floats that           *)
(*        1.0335 + random.uniform(0, 1) is followed for (see FloatRepr),   *)
(*        q = 4 is a float that is not finite: nan (h = 0), inf (h = 1);   *)
(*   s    the text of a str; of a nan, which object it is: "json" is the   *)
(*        one nan json.loads returns every time (json.decoder.NaN),        *)
(*        "caller" the nan the caller made with float('nan'), "float" the  *)
(*        nan float() made of a text when a field was validated;           *)
(*   items  the elements of a list or tuple;                               *)
(*   sub  the <<key, value>> pairs of a dict in insertion order.           *)
(* Attributes and entities are records with a ty field too, so that None   *)
(* can be told from any object by its class.                               *)
(***************************************************************************)
EXTENDS Integers, Sequences, FiniteSets, TLC

\* ------------------------------------------------------------------ bounds
\* Largest number of keys besides id and type in a raw entity dict.
MaxExtra == 2
\* Largest number of entity objects alive at the same time.
MaxObjs == 2
\* Most attribute payloads in a query result.
MaxAttrs == 2
\* Most entries in a type query result.
MaxEntities == 2
MaxData == 3
MaxCalls == 21
MaxPool == 2
MaxSamples == 2
MaxDraws == 1

\* ------------------------------------------------------------ Python values
Py(c, hi, lo, txt, elems, pairs) ==
    [ty |-> c, q |-> hi, h |-> lo, s |-> txt, items |-> elems, sub |-> pairs]

PyNone == Py("NoneType", 0, 0, "", <<>>, <<>>)
PyBool(b) == Py("bool", 0, IF b THEN 2 ELSE 0, "", <<>>, <<>>)
PyInt(n) == Py("int", 0, 2 * n, "", <<>>, <<>>)
PyBigInt(r) == Py("int", 1, 2 * r, "", <<>>, <<>>)
PyFloat(h) == Py("float", 0, h, "", <<>>, <<>>)
PyBigFloat(r) == Py("float", 1, 2 * r, "", <<>>, <<>>)
PyStr(txt) == Py("str", 0, 0, txt, <<>>, <<>>)
PyList(elems) == Py("list", 0, 0, "", elems, <<>>)
PyDict(pairs) == Py("dict", 0, 0, "", <<>>, pairs)

IsNone(x) == x.ty = "NoneType"
IsNumber(x) == x.ty \in {"bool", "int", "float"}

\* Python's ==: numbers compare by value whatever their class (True == 1 ==
\* 1.0), and nan (the float of q = 4, h = 0) equals no number, itself
\* included, whichever object it is; everything else by class and content.
PyEq(a, b) ==
    IF IsNumber(a) /\ IsNumber(b)
    THEN /\ a.q = b.q
         /\ a.h = b.h
         /\ ~(a.ty = "float" /\ a.q = 4 /\ a.h = 0)
    ELSE a = b

\* dict helpers: keys of a dict are unique, pairs are kept in insertion order.
Keys(d) == {d.sub[i][1] : i \in 1..Len(d.sub)}
HasKey(d, k) == k \in Keys(d)
Lookup(d, k) == d.sub[CHOOSE i \in 1..Len(d.sub) : d.sub[i][1] = k][2]
DictGet(d, k, default) == IF HasKey(d, k) THEN Lookup(d, k) ELSE default

\* d[k] = v: replaces the value in place when k is there, appends otherwise.
DictSet(d, k, v) ==
    IF HasKey(d, k)
    THEN [d EXCEPT !.sub = [i \in 1..Len(d.sub) |->
                              IF d.sub[i][1] = k THEN <<k, v>> ELSE d.sub[i]]]
    ELSE [d EXCEPT !.sub = Append(d.sub, <<k, v>>)]

\* -------------------------------------------------------- call outcomes
Ok(v) == [st |-> "ok", exc |-> "", val |-> v]
Raise(e) == [st |-> "raise", exc |-> e, val |-> PyNone]
IsOk(r) == r.st = "ok"

\* ----------------------------------------------- text of Python numbers
\* A hundred zeros.
Zeros100 ==
    "00000000000000000000000000000000000000000000000000"
    \o "00000000000000000000000000000000000000000000000000"

\* str(n) of an int; str(10 ** 309) is 1 followed by 309 zeros.
IntRepr(v) ==
    CASE v.q = 0 -> ToString(v.h \div 2)
      [] v.q = 1 -> "900719925474099" \o ToString(2 + (v.h \div 2))
      [] OTHER -> "1" \o Zeros100 \o Zeros100 \o Zeros100 \o "000000000"

\* repr(x) of a float, which is also how json.dumps writes a finite one.
\* The floats of q = 4 are those that are not finite: nan (h = 0), of
\* whichever object, and inf (h = 1).
FloatRepr(v) ==
    CASE v.q = 0 /\ v.h % 2 = 0 -> ToString(v.h \div 2) \o ".0"
      [] v.q = 0 /\ v.h % 2 = 1 -> ToString(v.h \div 2) \o ".5"
      [] v.q = 3 -> <<"1.0335", "1.8779218515250482",
                      "1.1678642441124012", "2.0335">>[v.h]
      [] v.q = 4 -> IF v.h = 0 THEN "nan" ELSE "inf"
      [] OTHER -> "900719925474099" \o ToString(2 + (v.h \div 2)) \o ".0"

\* The floats and ints whose text float() and the JSON parser are asked to
\* read back in this model.
FloatTexts ==
    {PyFloat(h) : h \in 0..30} \cup {PyFloat(2000)}
        \cup {PyBigFloat(r) : r \in {0, 2, 4}}
        \cup {Py("float", 3, k, "", <<>>, <<>>) : k \in 1..4}
IntTexts == {PyInt(n) : n \in 0..15} \cup {PyBigInt(r) : r \in 0..3}

\* float(n) of an int: exact up to 2^53, round-half-to-even above (doubles
\* are 2 apart there), OverflowError beyond the range of a double.
IntToFloat(v) ==
    CASE v.q = 0 -> Ok(PyFloat(v.h))
      [] v.q = 1 ->
            LET r == v.h \div 2
            IN  Ok(PyBigFloat(CASE r % 2 = 0 -> r
                                [] r % 4 = 1 -> r - 1
                                [] OTHER -> r + 1))
      [] OTHER -> Raise("OverflowError")

\* float(s) of a str, for the texts of this model: nan and inf are read as
\* the floats that are not finite, the nan being a new object, which is
\* neither the caller's nor json's; an exponent and blanks around the number
\* are accepted, the text of a float or of an int is read as that number;
\* the other texts of the model ("", "yo", "N" and the like) are no number,
\* and the ValueError of float() is the field's ValidationError.
StrToFloat(v) ==
    CASE v.s = "nan" -> Ok(Py("float", 4, 0, "float", <<>>, <<>>))
      [] v.s = "inf" -> Ok(Py("float", 4, 1, "", <<>>, <<>>))
      [] v.s = "1e3" -> Ok(PyFloat(2000))
      [] v.s = " 1.5 " -> Ok(PyFloat(3))
      [] \E f \in FloatTexts : FloatRepr(f) = v.s ->
            Ok(CHOOSE f \in FloatTexts : FloatRepr(f) = v.s)
      [] \E n \in IntTexts : IntRepr(n) = v.s ->
            IntToFloat(CHOOSE n \in IntTexts : IntRepr(n) = v.s)
      [] OTHER -> Raise("ValidationError")

\* ------------------------------------------- Pydantic's field validators
\* value: float.  A float is kept, anything else goes through float().
float_validator(v) ==
    CASE v.ty = "float" -> Ok(v)
      [] v.ty = "bool" -> Ok(PyFloat(v.h))
      [] v.ty = "int" -> IntToFloat(v)
      [] v.ty = "str" -> StrToFloat(v)
      [] OTHER -> Raise("ValidationError")

\* value: str (also the id and type fields).  A str is kept, a number is
\* turned into its text, anything else is rejected.
str_validator(v) ==
    CASE v.ty = "str" -> Ok(v)
      [] v.ty = "bool" -> Ok(PyStr(IF v.h = 2 THEN "True" ELSE "False"))
      [] v.ty = "int" -> Ok(PyStr(IntRepr(v)))
      [] v.ty = "float" -> Ok(PyStr(FloatRepr(v)))
      [] OTHER -> Raise("ValidationError")

\* str.lower() of the texts of this model.
Lower(s) ==
    CASE s = "N" -> "n"
      [] s = "E" -> "e"
      [] s = "S" -> "s"
      [] s = "W" -> "w"
      [] OTHER -> s

\* value: bool.  True and False are kept; 1, 0 and the texts of Pydantic's
\* BOOL_TRUE and BOOL_FALSE convert.
bool_validator(v) ==
    CASE v.ty = "bool" -> Ok(v)
      [] v.ty = "str" /\ Lower(v.s) \in {"1", "on", "t", "true", "y", "yes"} ->
            Ok(PyBool(TRUE))
      [] v.ty = "str" /\ Lower(v.s) \in {"0", "off", "f", "false", "n", "no"} ->
            Ok(PyBool(FALSE))
      [] v.ty \in {"int", "float"} /\ v.q = 0 /\ v.h = 2 -> Ok(PyBool(TRUE))
      [] v.ty \in {"int", "float"} /\ v.q = 0 /\ v.h = 0 -> Ok(PyBool(FALSE))
      [] OTHER -> Raise("ValidationError")

\* value: List.  A list or tuple becomes a new list of the same elements.
list_validator(v) ==
    IF v.ty \in {"list", "tuple"} THEN Ok(PyList(v.items))
    ELSE Raise("ValidationError")

\* value: Dict.  A dict is kept; otherwise dict(v) is tried, which works for
\* an empty str, list or tuple only (elements would have to be pairs).
dict_validator(v) ==
    CASE v.ty = "dict" -> Ok(v)
      [] v.ty = "str" /\ v.s = "" -> Ok(PyDict(<<>>))
      [] v.ty \in {"list", "tuple"} /\ v.items = <<>> -> Ok(PyDict(<<>>))
      [] OTHER -> Raise("ValidationError")

\* ------------------------------------------------------------ attributes
AttrKinds ==
    {"FloatAttr", "TextAttr", "BoolAttr", "ArrayAttr", "StructuredValueAttr"}

\* The type each Attr subclass sets as the default of its type field.
AttrTypeTag(kind) ==
    CASE kind = "FloatAttr" -> "Number"
      [] kind = "TextAttr" -> "Text"
      [] kind = "BoolAttr" -> "Boolean"
      [] kind = "ArrayAttr" -> "Array"
      [] kind = "StructuredValueAttr" -> "StructuredValue"

\* The validator of the value field each Attr subclass declares.
value_validator(kind, v) ==
    CASE kind = "FloatAttr" -> float_validator(v)
      [] kind = "TextAttr" -> str_validator(v)
      [] kind = "BoolAttr" -> bool_validator(v)
      [] kind = "ArrayAttr" -> list_validator(v)
      [] kind = "StructuredValueAttr" -> dict_validator(v)

MkAttr(kind, tag, v) == [ty |-> kind, type |-> tag, value |-> v]

\* kind(**kw): build an attribute from keyword arguments.  type defaults to
\* the class's tag and must be a str (or a number, whose text is taken) when
\* given; value is required and validated by the class's value type.  An
\* OverflowError of float() escapes validation as it is.
AttrInit(kind, kw) ==
    LET tres == IF ~HasKey(kw, "type") THEN Ok(PyStr(AttrTypeTag(kind)))
                ELSE IF IsNone(Lookup(kw, "type")) THEN Raise("ValidationError")
                ELSE str_validator(Lookup(kw, "type"))
        vres == IF ~HasKey(kw, "value") THEN Raise("ValidationError")
                ELSE IF IsNone(Lookup(kw, "value")) THEN Raise("ValidationError")
                ELSE value_validator(kind, Lookup(kw, "value"))
    IN  IF vres.exc = "OverflowError" THEN Raise("OverflowError")
        ELSE IF IsOk(tres) /\ IsOk(vres)
             THEN Ok(MkAttr(kind, tres.val.s, vres.val))
             ELSE Raise("ValidationError")

\* Attr.new
AttrNew(kind, value) ==
    IF IsNone(value) THEN Ok(PyNone)
    ELSE AttrInit(kind, PyDict(<< <<"value", value>> >>))

\* ctor_map[type(jval)]: the class whose new() is called, "KeyError" when
\* the exact class of the value is no key of the map.
ctor_map(ty) ==
    CASE ty = "int" -> "FloatAttr"
      [] ty = "float" -> "FloatAttr"
      [] ty = "bool" -> "BoolAttr"
      [] ty = "str" -> "TextAttr"
      [] ty = "list" -> "ArrayAttr"
      [] ty = "dict" -> "StructuredValueAttr"
      [] OTHER -> "KeyError"

json_val_to_attr(jval) ==
    IF ctor_map(jval.ty) = "KeyError" THEN Ok(PyNone)
    ELSE AttrNew(ctor_map(jval.ty), jval)

\* ------------------------------------------------------------ entities
NGSI_ID_FIELD == "id"
NGSI_TYPE_FIELD == "type"

ld_urn(unique_suffix) == "urn:ngsi-ld:" \o unique_suffix

\* The BaseEntity subclasses of the repository's test utilities: BotEntity
\* declares optional attributes only, DroneEntity a required one.
EntityClasses == {"BotEntity", "DroneEntity"}

\* The value a subclass sets as the default of its type field.  Bot is the
\* class of the generator tests.
BoundType(c) ==
    CASE c = "BotEntity" -> "Bot"
      [] c = "DroneEntity" -> "Drone"
      [] c = "Bot" -> "Bot"

\* The attributes a subclass declares, in declaration order, each with the
\* value it takes when none is given: None for an Optional attribute,
\* TextAttr.new('foobie') for the name of a Bot.
Fields(c) ==
    CASE c = "BotEntity" ->
            << [name |-> "speed", kind |-> "FloatAttr", required |-> FALSE,
                default |-> PyNone],
               [name |-> "direction", kind |-> "TextAttr", required |-> FALSE,
                default |-> PyNone] >>
      [] c = "DroneEntity" ->
            << [name |-> "height", kind |-> "FloatAttr", required |-> TRUE,
                default |-> PyNone] >>
      [] c = "Bot" ->
            << [name |-> "name", kind |-> "TextAttr", required |-> FALSE,
                default |-> AttrNew("TextAttr", PyStr("foobie")).val] >>

MkEntity(c, i, t, a) == [ty |-> c, id |-> i, type |-> t, attrs |-> a]

\* Pydantic's validation of a value given for a field of class kind: an
\* instance of kind is taken as it is, a dict gives the keyword arguments,
\* an instance of another model class is turned into the dict of its
\* fields first; anything else is no dict (the lists and texts of this
\* model are no sequences of pairs).
model_validate(kind, v) ==
    CASE v.ty = kind -> Ok(v)
      [] v.ty = "dict" -> AttrInit(kind, v)
      [] v.ty \in AttrKinds ->
            AttrInit(kind, PyDict(<< <<"type", PyStr(v.type)>>,
                                     <<"value", v.value>> >>))
      [] OTHER -> Raise("ValidationError")

\* A declared attribute left unset when what is given for it is not valid.
FieldInitUnsetIfInvalid(f, kw) ==
    IF ~HasKey(kw, f.name)
    THEN IF f.required THEN Raise("ValidationError") ELSE Ok(f.default)
    ELSE IF IsNone(Lookup(kw, f.name))
    THEN IF ~f.required /\ IsNone(f.default) THEN Ok(PyNone)
         ELSE Raise("ValidationError")
    ELSE IF IsOk(model_validate(f.kind, Lookup(kw, f.name)))
         THEN model_validate(f.kind, Lookup(kw, f.name))
         ELSE Ok(PyNone)

\* One declared attribute out of the keyword arguments: its default when
\* the key is missing, None when None is given for an Optional attribute.
FieldInit(f, kw) ==
    IF ~HasKey(kw, f.name)
    THEN IF f.required THEN Raise("ValidationError") ELSE Ok(f.default)
    ELSE IF IsNone(Lookup(kw, f.name))
    THEN IF ~f.required /\ IsNone(f.default) THEN Ok(PyNone)
         ELSE Raise("ValidationError")
    ELSE model_validate(f.kind, Lookup(kw, f.name))

\* The end of Pydantic's validation of the fields of an entity of class c:
\* idres, tyres and fres are the outcomes for id, for type and for the
\* declared attributes fs.  An OverflowError of a validator is not caught;
\* any other failure gives ValidationError.
validate_model(c, fs, idres, tyres, fres) ==
    IF \E i \in 1..Len(fs) : fres[i].exc = "OverflowError"
    THEN Raise("OverflowError")
    ELSE IF IsOk(idres) /\ IsOk(tyres) /\ \A i \in 1..Len(fs) : IsOk(fres[i])
         THEN Ok(MkEntity(c, idres.val.s, tyres.val.s,
                          [i \in 1..Len(fs) |-> <<fs[i].name, fres[i].val>>]))
         ELSE Raise("ValidationError")

\* c(**kw): build an entity of class c.  id is required, type defaults to
\* the bound type, both must be texts (a number's text is taken); declared
\* attributes are validated, every other key of kw is ignored.
EntityInit(c, kw) ==
    validate_model(c, Fields(c),
        IF ~HasKey(kw, NGSI_ID_FIELD) \/ IsNone(Lookup(kw, NGSI_ID_FIELD))
        THEN Raise("ValidationError")
        ELSE str_validator(Lookup(kw, NGSI_ID_FIELD)),
        IF ~HasKey(kw, NGSI_TYPE_FIELD) THEN Ok(PyStr(BoundType(c)))
        ELSE IF IsNone(Lookup(kw, NGSI_TYPE_FIELD))
             THEN Raise("ValidationError")
             ELSE str_validator(Lookup(kw, NGSI_TYPE_FIELD)),
        [i \in 1..Len(Fields(c)) |-> FieldInit(Fields(c)[i], kw)])

\* A from_raw that takes a raw dict of any type.
has_same_ngsi_type_unchecked(c, raw_entity) == Ok(TRUE)

\* BaseEntity._has_same_ngsi_type: reads the type off an instance built with
\* an empty id and nothing else.
has_same_ngsi_type(c, raw_entity) ==
    LET own == EntityInit(c, PyDict(<< <<NGSI_ID_FIELD, PyStr("")>> >>))
        etype == DictGet(raw_entity, NGSI_TYPE_FIELD, PyStr(""))
    IN  IF IsOk(own) THEN Ok(PyEq(PyStr(own.val.type), etype)) ELSE own

\* BaseEntity.from_raw
from_raw(c, raw_entity) ==
    LET same == has_same_ngsi_type(c, raw_entity)
    IN  IF ~IsOk(same) THEN same
        ELSE IF same.val THEN EntityInit(c, raw_entity)
        ELSE Ok(PyNone)

\* The loop of entity_kv_to_entity_dict over the pairs from position i on.
RECURSIVE kv_fields(_, _, _)
kv_fields(repr, i, fields) ==
    IF i > Len(repr.sub) THEN Ok(fields)
    ELSE LET k == repr.sub[i][1]
             v == repr.sub[i][2]
             f == json_val_to_attr(v)
         IN  IF k = NGSI_ID_FIELD \/ k = NGSI_TYPE_FIELD
             THEN kv_fields(repr, i + 1, fields)
             ELSE IF ~IsOk(f) THEN f
             ELSE IF IsNone(f.val) THEN kv_fields(repr, i + 1, fields)
             ELSE kv_fields(repr, i + 1, DictSet(fields, k, f.val))

entity_kv_to_entity_dict(repr) ==
    kv_fields(repr, 1,
              PyDict(<< <<NGSI_ID_FIELD, DictGet(repr, NGSI_ID_FIELD, PyStr(""))>>,
                        <<NGSI_TYPE_FIELD, DictGet(repr, NGSI_TYPE_FIELD, PyStr(""))>> >>))

\* BaseEntity.from_raw_kv
from_raw_kv(c, raw_entity) ==
    LET same == has_same_ngsi_type(c, raw_entity)
        fields == entity_kv_to_entity_dict(raw_entity)
    IN  IF ~IsOk(same) THEN same
        ELSE IF ~same.val THEN Ok(PyNone)
        ELSE IF ~IsOk(fields) THEN fields
        ELSE EntityInit(c, fields.val)

\* Names Pydantic refuses for a field of a new model: those of the methods
\* and attributes a BaseEntity already has.
ShadowedNames ==
    {"json", "dict", "copy", "schema", "construct", "validate",
     "to_json", "from_raw", "from_raw_kv", "set_id_with_type_prefix"}

\* create_model(model_name, __base__=BaseEntity, **fields) followed by
\* dynamic_model(): the keys of fields besides id and type become the
\* attributes of the new class, in the order of fields, and the instance
\* holds the values of fields as its defaults.
dyn_model_instance(fields) ==
    LET attrs == SelectSeq(fields.sub,
                           LAMBDA p : p[1] \notin {NGSI_ID_FIELD, NGSI_TYPE_FIELD})
    IN  IF \E i \in 1..Len(attrs) : attrs[i][1] \in ShadowedNames
        THEN Raise("NameError")
        ELSE Ok(MkEntity(Lookup(fields, NGSI_TYPE_FIELD).s,
                         Lookup(fields, NGSI_ID_FIELD).s,
                         Lookup(fields, NGSI_TYPE_FIELD).s,
                         attrs))

from_raw_kv_to_dyn_entity(raw_entity) ==
    LET fields == entity_kv_to_entity_dict(raw_entity)
    IN  IF ~IsOk(fields) THEN fields ELSE dyn_model_instance(fields.val)

\* BaseEntity.set_id_with_type_prefix
set_id_with_type_prefix(self, unique_suffix) ==
    [self EXCEPT !.id = ld_urn(self.type \o ":" \o unique_suffix)]

\* return [c for c in candidates if c is not None], or the exception of
\* the first element of data whose from_raw raised.
filter_result(candidates) ==
    IF \E i \in 1..Len(candidates) : ~IsOk(candidates[i])
    THEN candidates[CHOOSE i \in 1..Len(candidates) :
                        /\ ~IsOk(candidates[i])
                        /\ \A k \in 1..(i - 1) : IsOk(candidates[k])]
    ELSE Ok(SelectSeq([i \in 1..Len(candidates) |-> candidates[i].val],
                      LAMBDA c : ~IsNone(c)))

\* EntityUpdateNotification.filter_entities
filter_entities(self, entity_class) ==
    filter_result([i \in 1..Len(self.data) |-> from_raw(entity_class, self.data[i])])

\* ------------------------------------------------------------ JSON text
\* A JSON text is modelled by its tokens: jt is the kind of value, text what
\* is written for a number or a string, items the elements of an array and
\* members the <<name, value>> pairs of an object in the order written.
J(kind, txt, elems, pairs) ==
    [jt |-> kind, text |-> txt, items |-> elems, members |-> pairs]

\* json.dumps of a Python value; nan and inf are written NaN and Infinity.
RECURSIVE json_dumps(_)
json_dumps(v) ==
    CASE v.ty = "NoneType" -> J("null", "null", <<>>, <<>>)
      [] v.ty = "bool" ->
            IF v.h = 2 THEN J("true", "true", <<>>, <<>>)
            ELSE J("false", "false", <<>>, <<>>)
      [] v.ty = "int" -> J("number", IntRepr(v), <<>>, <<>>)
      [] v.ty = "float" ->
            J("number",
              IF v.q # 4 THEN FloatRepr(v)
              ELSE IF v.h = 0 THEN "NaN" ELSE "Infinity",
              <<>>, <<>>)
      [] v.ty = "str" -> J("string", v.s, <<>>, <<>>)
      [] v.ty \in {"list", "tuple"} ->
            J("array", "", [i \in 1..Len(v.items) |-> json_dumps(v.items[i])], <<>>)
      [] v.ty = "dict" ->
            J("object", "", <<>>,
              [i \in 1..Len(v.sub) |-> <<v.sub[i][1], json_dumps(v.sub[i][2])>>])

\* json.loads: a number written without a fraction is an int, any other
\* number a float; NaN and Infinity are read as the floats nan and inf, the
\* same nan object at every call (NaN of json.decoder).
RECURSIVE json_loads(_)
json_loads(j) ==
    CASE j.jt = "null" -> PyNone
      [] j.jt = "true" -> PyBool(TRUE)
      [] j.jt = "false" -> PyBool(FALSE)
      [] j.jt = "number" ->
            CASE j.text = "NaN" -> Py("float", 4, 0, "json", <<>>, <<>>)
              [] j.text = "Infinity" -> Py("float", 4, 1, "", <<>>, <<>>)
              [] \E n \in IntTexts : IntRepr(n) = j.text ->
                    CHOOSE n \in IntTexts : IntRepr(n) = j.text
              [] OTHER -> CHOOSE f \in FloatTexts : FloatRepr(f) = j.text
      [] j.jt = "string" -> PyStr(j.text)
      [] j.jt = "array" ->
            PyList([i \in 1..Len(j.items) |-> json_loads(j.items[i])])
      [] j.jt = "object" ->
            PyDict([i \in 1..Len(j.members) |->
                       <<j.members[i][1], json_loads(j.members[i][2])>>])

\* What json(exclude_none=True) writes for one attribute: its type, then
\* its value.
attr_json(a) ==
    J("object", "", <<>>,
      << <<"type", J("string", a.type, <<>>, <<>>)>>,
         <<"value", json_dumps(a.value)>> >>)

\* to_json keeping the attributes that are None, written as null.
to_json_with_nulls(self) ==
    J("object", "", <<>>,
      << <<NGSI_ID_FIELD, J("string", self.id, <<>>, <<>>)>>,
         <<NGSI_TYPE_FIELD, J("string", self.type, <<>>, <<>>)>> >>
      \o [i \in 1..Len(self.attrs) |->
            <<self.attrs[i][1],
              IF IsNone(self.attrs[i][2]) THEN J("null", "null", <<>>, <<>>)
              ELSE attr_json(self.attrs[i][2])>>])

\* to_json writing the attributes before id and type.
to_json_attrs_first(self) ==
    LET present == SelectSeq(self.attrs, LAMBDA p : ~IsNone(p[2]))
    IN  J("object", "", <<>>,
          [i \in 1..Len(present) |-> <<present[i][1], attr_json(present[i][2])>>]
          \o << <<NGSI_ID_FIELD, J("string", self.id, <<>>, <<>>)>>,
                <<NGSI_TYPE_FIELD, J("string", self.type, <<>>, <<>>)>> >>)

\* BaseEntity.to_json: id, type, then every attribute that is not None, in
\* field order.
to_json(self) ==
    LET present == SelectSeq(self.attrs, LAMBDA p : ~IsNone(p[2]))
    IN  J("object", "", <<>>,
          << <<NGSI_ID_FIELD, J("string", self.id, <<>>, <<>>)>>,
             <<NGSI_TYPE_FIELD, J("string", self.type, <<>>, <<>>)>> >>
          \o [i \in 1..Len(present) |-> <<present[i][1], attr_json(present[i][2])>>])

\* to_ngsi_json
to_ngsi_json(raw_entity_doc) ==
    LET entity == from_raw_kv_to_dyn_entity(json_loads(raw_entity_doc))
    IN  IF IsOk(entity) THEN Ok(to_json(entity.val)) ELSE entity

\* ------------------------------------------------------------ series
\* A datetime with a UTC offset of zero.
DateTime(d, t) == [ty |-> "datetime", date |-> d, time |-> t, utcoffset |-> 0]

\* A parser that gives None for what it cannot read.
fromisoformat_or_none(date_string) ==
    IF date_string.ty # "str" THEN Ok(PyNone)
    ELSE CASE date_string.s = "2022-03-28T18:03:18.923+00:00" ->
                Ok(DateTime(<<2022, 3, 28>>, <<18, 3, 18, 923000>>))
           [] date_string.s = "2022-03-28T18:03:20.458+00:00" ->
                Ok(DateTime(<<2022, 3, 28>>, <<18, 3, 20, 458000>>))
           [] date_string.s = "2022-03-28T18:03:22.011+00:00" ->
                Ok(DateTime(<<2022, 3, 28>>, <<18, 3, 22, 11000>>))
           [] OTHER -> Ok(PyNone)

\* datetime.fromisoformat on the texts the documents hold: a text that is
\* not an ISO 8601 date raises ValueError, a value that is not a text
\* raises TypeError.
fromisoformat(date_string) ==
    IF date_string.ty # "str" THEN Raise("TypeError")
    ELSE CASE date_string.s = "2022-03-28T18:03:18.923+00:00" ->
                Ok(DateTime(<<2022, 3, 28>>, <<18, 3, 18, 923000>>))
           [] date_string.s = "2022-03-28T18:03:20.458+00:00" ->
                Ok(DateTime(<<2022, 3, 28>>, <<18, 3, 20, 458000>>))
           [] date_string.s = "2022-03-28T18:03:22.011+00:00" ->
                Ok(DateTime(<<2022, 3, 28>>, <<18, 3, 22, 11000>>))
           [] OTHER -> Raise("ValueError")

\* {**x, **y}
RECURSIVE dict_update(_, _, _)
dict_update(x, y, i) ==
    IF i > Len(y.sub) THEN x
    ELSE dict_update(DictSet(x, y.sub[i][1], y.sub[i][2]), y, i + 1)

\* merge_dicts: the fold of {**x, **y} over ds from the empty dict.
RECURSIVE merge_dicts(_)
merge_dicts(ds) ==
    IF ds = <<>> THEN PyDict(<<>>)
    ELSE dict_update(merge_dicts(SubSeq(ds, 1, Len(ds) - 1)), ds[Len(ds)], 1)

\* to_kv of from_quantumleap_format: the one-pair dict of an attribute
\* payload, empty when the payload has no name.
to_kv(attr_payload) ==
    LET key == DictGet(attr_payload, "attrName", PyStr(""))
    IN  IF PyEq(key, PyStr("")) THEN PyDict(<<>>)
        ELSE PyDict(<< <<key.s, DictGet(attr_payload, "values", PyList(<<>>))>> >>)

\* What create_model(model_name, __base__=EntitySeries, **attr_fields)
\* raises, if anything: the fields are taken in order, a name that an
\* EntitySeries attribute already has is a NameError, and a new default for
\* index whose class is not that of the declared field a TypeError.
RECURSIVE create_model_error(_, _)
create_model_error(attr_fields, i) ==
    IF i > Len(attr_fields.sub) THEN ""
    ELSE IF attr_fields.sub[i][1] \in ShadowedNames THEN "NameError"
    ELSE IF attr_fields.sub[i][1] = "index" THEN "TypeError"
    ELSE create_model_error(attr_fields, i + 1)

\* An instance of a dynamic EntitySeries subclass: the index and, in
\* declaration order, the fields with their sequences.
MkSeries(model_name, tix, attr_fields) ==
    [ty |-> "EntitySeries", name |-> model_name, index |-> tix,
     fields |-> attr_fields]

\* The last two statements of from_quantumleap_format: create_model and
\* dynamic_model(index=tix), which keeps the field defaults.
from_quantumleap_fields(model_name, tix, attr_fields) ==
    IF create_model_error(attr_fields, 1) # ""
    THEN Raise(create_model_error(attr_fields, 1))
    ELSE Ok(MkSeries(model_name, tix, attr_fields.sub))

\* The body of from_quantumleap_format on a document that is a dict.
from_quantumleap_doc(entity_query_result) ==
    LET attributes == DictGet(entity_query_result, "attributes", PyList(<<>>)).items
        raw_tix == DictGet(entity_query_result, "index", PyList(<<>>)).items
        parsed == [i \in 1..Len(raw_tix) |-> fromisoformat(raw_tix[i])]
        model_name == DictGet(entity_query_result, "entityType", PyStr("")).s \o "Series"
    IN  IF \E i \in 1..Len(attributes) : attributes[i].ty # "dict"
        THEN Raise("AttributeError")
        ELSE IF \E i \in 1..Len(parsed) : ~IsOk(parsed[i])
        THEN parsed[CHOOSE i \in 1..Len(parsed) :
                        /\ ~IsOk(parsed[i])
                        /\ \A j \in 1..(i - 1) : IsOk(parsed[j])]
        ELSE from_quantumleap_fields(
                 model_name,
                 [i \in 1..Len(parsed) |-> parsed[i].val],
                 merge_dicts([i \in 1..Len(attributes) |-> to_kv(attributes[i])]))

\* from_quantumleap_format taking what is no dict for the empty document.
from_quantumleap_format_none_as_empty(entity_query_result) ==
    from_quantumleap_doc(IF entity_query_result.ty = "dict"
                         THEN entity_query_result ELSE PyDict(<<>>))

\* EntitySeries.from_quantumleap_format: a document that is no dict has no
\* get method (AttributeError).
from_quantumleap_format(entity_query_result) ==
    IF entity_query_result.ty # "dict" THEN Raise("AttributeError")
    ELSE from_quantumleap_doc(entity_query_result)

\* The attribute payloads of a query result.
AttributesOf(doc) == DictGet(doc, "attributes", PyList(<<>>)).items

\* ------------------------------------------------------------ waiting
\* A Python float is an IEEE double.  The doubles of this model are whole
\* multiples of 2^-55 below 4: sg is the sign (1, 0 or -1) and the
\* magnitude is (hi * 2^28 + lo) * 2^-55 with lo below 2^28, so that 1.0 is
\* hi = 2^27 and 0.1, the double next to one tenth, is hi = 13421772,
\* lo = 214748365.
\* x - y for x, y > 0, as the processor computes it: the exact difference,
\* rounded to 53 significant bits, a tie going to the even neighbour.
float_sub(x, y) ==
    LET gt == x.hi > y.hi \/ (x.hi = y.hi /\ x.lo > y.lo)
        big == IF gt THEN x ELSE y
        small == IF gt THEN y ELSE x
        borrow == IF big.lo < small.lo THEN 1 ELSE 0
        ehi == big.hi - small.hi - borrow
        elo == big.lo - small.lo + borrow * 268435456
        unit == IF ehi < 33554432 THEN 1
                ELSE IF ehi < 67108864 THEN 2
                ELSE IF ehi < 134217728 THEN 4
                ELSE IF ehi < 268435456 THEN 8 ELSE 16
        q == elo \div unit
        up == \/ 2 * (elo % unit) > unit
              \/ 2 * (elo % unit) = unit /\ q % 2 = 1
        rlo == (q + (IF up THEN 1 ELSE 0)) * unit
    IN  IF x.hi = y.hi /\ x.lo = y.lo THEN [sg |-> 0, hi |-> 0, lo |-> 0]
        ELSE [sg |-> IF gt THEN 1 ELSE -1,
              hi |-> ehi + (IF rlo = 268435456 THEN 1 ELSE 0),
              lo |-> IF rlo = 268435456 THEN 0 ELSE rlo]

\* An iteration of wait_until that goes on after action returned True.
wait_until_ignoring_stop(st, interval, stop) ==
    IF st.time_left_to_wait.sg <= 0
    THEN [st EXCEPT !.pc = "done", !.res = Raise("AssertionError")]
    ELSE IF stop = "raise"
    THEN [st EXCEPT !.pc = "done", !.res = Raise("Exception"),
                    !.results = Append(@, stop)]
    ELSE [st EXCEPT !.results = Append(@, stop),
                    !.time_left_to_wait = float_sub(@, interval)]

\* wait_until from the test of the while loop on: the loop is left by the
\* assert when no time is left; otherwise action is called and either
\* raises, returns True, which ends the call, or returns False, after which
\* the interval is taken off the time left and slept.
wait_until_step(st, interval, stop) ==
    IF st.time_left_to_wait.sg <= 0
    THEN [st EXCEPT !.pc = "done", !.res = Raise("AssertionError")]
    ELSE IF stop = "raise"
    THEN [st EXCEPT !.pc = "done", !.res = Raise("Exception"),
                    !.results = Append(@, stop)]
    ELSE IF stop = "True"
    THEN [st EXCEPT !.pc = "done", !.res = Ok(PyNone),
                    !.results = Append(@, stop)]
    ELSE [st EXCEPT !.results = Append(@, stop),
                    !.time_left_to_wait = float_sub(@, interval)]

\* ------------------------------------------------------------ simulation
\* The entity generators of the tests.  mk_bot returns Bot(id=''), the same
\* every time.  new_device_entity of BotSampler returns a BotEntity whose
\* speed is 1.0335 + random.uniform(0, 1) and whose direction is drawn from
\* N, E, S, W: pick[1] says which speed was drawn, 1.0335 (the least),
\* 1.8779218515250482, 1.1678642441124012 or 2.0335 (the largest), and
\* pick[2] which direction.
generator(kind, pick) ==
    IF kind = "mk_bot"
    THEN EntityInit("Bot", PyDict(<< <<NGSI_ID_FIELD, PyStr("")>> >>)).val
    ELSE EntityInit("BotEntity",
            PyDict(<< <<NGSI_ID_FIELD, PyStr("")>>,
                      <<"speed",
                        AttrNew("FloatAttr",
                                Py("float", 3, pick[1], "", <<>>, <<>>)).val>>,
                      <<"direction",
                        AttrNew("TextAttr",
                                PyStr(<<"N", "E", "S", "W">>[pick[2]])).val>> >>)).val

\* The draws of the random generator that are followed: the speed
\* (random.uniform) and the direction (random.choice) are drawn one after
\* the other and every speed comes with every direction.
Picks == (1..4) \X (1..4)

\* A factory with one suffix more than asked for.
with_one_more_suffix(how_many, kind) ==
    IF how_many > 0
    THEN Ok([ty |-> "EntityFactory", generator |-> kind,
             suffixes |-> [k \in 1..(how_many + 1) |-> ToString(k)]])
    ELSE Raise("AssertionError")

\* EntityFactory.with_numeric_suffixes and EntityFactory.__init__
with_numeric_suffixes(how_many, kind) ==
    IF how_many > 0
    THEN Ok([ty |-> "EntityFactory", generator |-> kind,
             suffixes |-> [k \in 1..how_many |-> ToString(k)]])
    ELSE Raise("AssertionError")

\* EntityFactory.new_entity: self._suffixes[suffix_index] counts from the
\* end when the index is negative.
new_entity(self, suffix_index, pick) ==
    LET n == Len(self.suffixes)
    IN  IF suffix_index >= n \/ suffix_index < -n THEN Raise("IndexError")
        ELSE Ok(set_id_with_type_prefix(
                    generator(self.generator, pick),
                    self.suffixes[IF suffix_index >= 0 THEN suffix_index + 1
                                  ELSE n + suffix_index + 1]))

\* A batch without the entity of the last suffix.
new_batch_one_short(self, picks) ==
    [k \in 1..(Len(self.suffixes) - 1) |-> new_entity(self, k - 1, picks[k]).val]

\* EntityFactory.new_batch
new_batch(self, picks) ==
    [k \in 1..Len(self.suffixes) |-> new_entity(self, k - 1, picks[k]).val]

\* DevicePoolSampler.make_device_entity, self._device_n being the number of
\* suffixes of self._factory.
make_device_entity(self, nid, pick) ==
    IF 0 < nid /\ nid <= Len(self.suffixes)
    THEN new_entity(self, nid - 1, pick)
    ELSE Raise("AssertionError")

\* A round of sample that sends the entity of the first device only.
sample_step_first_device_only(st, picks, reply) ==
    IF st.pc = "upsert"
    THEN IF reply # "ok"
         THEN [st EXCEPT !.pc = "done", !.sent = <<>>, !.res = Raise(reply)]
         ELSE IF st.sampling_rate.h < 0
         THEN [st EXCEPT !.pc = "done", !.sent = <<>>,
                         !.res = Raise("ValueError")]
         ELSE [st EXCEPT !.pc = "for", !.sent = <<>>]
    ELSE IF st.calls >= st.samples_n
    THEN [st EXCEPT !.pc = "done", !.res = Ok(PyNone)]
    ELSE [st EXCEPT
            !.calls = @ + 1,
            !.sent = << make_device_entity(st.self, 1, picks[1]).val >>,
            !.pc = "upsert"]

\* DevicePoolSampler.sample, a step at a time.  At the test of its for loop
\* the call returns when samples_n rounds were made; otherwise the round
\* makes an entity for each device and calls upsert_entities with the list
\* (calls counts the calls made, sent is the list the call in progress was
\* given).  The call of upsert_entities ends as Orion's reply has it: with
\* an exception, HTTPError of raise_for_status, which ends sample too, or
\* with a return, and then the round ends with time.sleep(sampling_rate),
\* which raises ValueError for a negative rate, and the loop is back at its
\* test.
sample_step(st, picks, reply) ==
    IF st.pc = "upsert"
    THEN IF reply # "ok"
         THEN [st EXCEPT !.pc = "done", !.sent = <<>>, !.res = Raise(reply)]
         ELSE IF st.sampling_rate.h < 0
         THEN [st EXCEPT !.pc = "done", !.sent = <<>>,
                         !.res = Raise("ValueError")]
         ELSE [st EXCEPT !.pc = "for", !.sent = <<>>]
    ELSE IF st.calls >= st.samples_n
    THEN [st EXCEPT !.pc = "done", !.res = Ok(PyNone)]
    ELSE [st EXCEPT
            !.calls = @ + 1,
            !.sent = [nid \in 1..Len(st.self.suffixes) |->
                         make_device_entity(st.self, nid, picks[nid]).val],
            !.pc = "upsert"]

\* ------------------------------------------------------ entity summaries
\* from_entity_summary: a missing key is a KeyError, which gives None;
\* BaseEntity(id=eid, type=etype) validates the two values as texts and its
\* ValidationError, for None, a list or a dict, is not caught.
from_entity_summary(entity_summary) ==
    IF ~HasKey(entity_summary, "entityId") \/ ~HasKey(entity_summary, "entityType")
    THEN Ok(PyNone)
    ELSE IF /\ IsOk(str_validator(Lookup(entity_summary, "entityId")))
            /\ IsOk(str_validator(Lookup(entity_summary, "entityType")))
         THEN Ok(MkEntity("BaseEntity",
                          str_validator(Lookup(entity_summary, "entityId")).val.s,
                          str_validator(Lookup(entity_summary, "entityType")).val.s,
                          <<>>))
         ELSE Raise("ValidationError")

\* from_entity_summaries: the list of the entities made, or the exception
\* of the first summary whose BaseEntity could not be built.
from_entity_summaries(xs) ==
    filter_result([i \in 1..Len(xs) |-> from_entity_summary(xs[i])])

\* ------------------------------------------------------------ inputs
\* Values a parsed JSON document can hold, and one value that is not JSON,
\* the tuple (1,).  The int of JVals with q = 2 is 10 ** 309, its floats
\* with q = 4 are nan, the one json.loads read and one the caller made
\* with float('nan'), and inf.
JList == PyList(<<PyInt(1), PyInt(2)>>)
JObject == PyDict(<< <<"h", PyInt(3)>> >>)
NotJson == Py("tuple", 0, 0, "", <<PyInt(1)>>, <<>>)

JVals ==
    {PyNone, PyBool(TRUE), PyBool(FALSE),
     PyInt(0), PyInt(1), PyInt(12), Py("int", 2, 0, "", <<>>, <<>>),
     PyFloat(2), PyFloat(3), PyFloat(0), PyBigFloat(2),
     Py("float", 4, 0, "json", <<>>, <<>>),
     Py("float", 4, 0, "caller", <<>>, <<>>),
     Py("float", 4, 1, "", <<>>, <<>>),
     PyStr("yo"), PyStr("1.5"), PyStr(""),
     PyStr("nan"), PyStr("inf"), PyStr("1e3"), PyStr(" 1.5 "),
     JList, PyList(<<>>), JObject, PyDict(<<>>), NotJson}
        \cup {PyBigInt(r) : r \in 0..3}

\* A key that a raw dict does not have.
Absent == [ty |-> "absent"]

Suffixes == {"1", "2"}

\* Key-value representation: the keys besides id and type and the values
\* they take, among them the nan json.loads read, when the dict was parsed
\* from a text as the tests do, and a nan the caller made.  json is a name
\* BaseEntity already uses.
KvKeys == <<"speed", "direction", "json">>
KvVals ==
    {PyNone, PyBool(TRUE), PyInt(1), PyFloat(3),
     Py("float", 4, 0, "json", <<>>, <<>>),
     Py("float", 4, 0, "caller", <<>>, <<>>),
     PyStr("1.5"), PyStr("yo"), PyStr("nan"), JList, JObject, NotJson}

\* Entity dictionary (full representation): an attribute is a dict with a
\* value and optionally a type; some of these are malformed.
FullKeys == <<"speed", "direction", "height">>
FullVals ==
    {PyNone, PyInt(3),
     PyDict(<< <<"value", PyFloat(3)>> >>),
     PyDict(<< <<"type", PyStr("Number")>>, <<"value", PyInt(1)>> >>),
     PyDict(<< <<"type", PyStr("Text")>>, <<"value", PyStr("N")>> >>),
     PyDict(<< <<"type", PyStr("Text")>>, <<"value", PyStr("1.5")>> >>),
     PyDict(<< <<"type", PyStr("Number")>> >>)}

RECURSIVE Reverse(_)
Reverse(s) == IF s = <<>> THEN <<>> ELSE Append(Reverse(Tail(s)), Head(s))

\* The pairs of the keys that choice f gives a value, in the order of keys.
RECURSIVE PairsOf(_, _, _)
PairsOf(keys, f, i) ==
    IF i > Len(keys) THEN <<>>
    ELSE (IF f[i] = Absent THEN <<>> ELSE << <<keys[i], f[i]>> >>)
         \o PairsOf(keys, f, i + 1)

\* The raw dicts over keys and vals with at most MaxExtra keys besides id
\* and type; id and type come first, or last with the other keys reversed.
RawDicts(keys, vals) ==
    {PyDict(IF rev THEN Reverse(PairsOf(keys, f, 1)) \o hd
            ELSE hd \o PairsOf(keys, f, 1)) :
        hd \in {(IF i = Absent THEN <<>> ELSE << <<NGSI_ID_FIELD, i>> >>)
                \o (IF t = Absent THEN <<>> ELSE << <<NGSI_TYPE_FIELD, t>> >>) :
                    i \in {Absent, PyStr("urn:ngsi-ld:Bot:3")},
                    t \in {Absent, PyStr("Bot"), PyStr("Drone")}},
        f \in {g \in [1..Len(keys) -> vals \cup {Absent}] :
                  Cardinality({i \in 1..Len(keys) : g[i] # Absent}) <= MaxExtra},
        rev \in BOOLEAN}


\* Update notifications: data holds at most MaxData entities in full
\* representation, each with an id; their types are Bot, Drone, one no
\* class binds, or none.
NotificationEntity(i, t, k, h) ==
    PyDict(<< <<NGSI_ID_FIELD, PyStr(i)>> >>
           \o (IF t = "" THEN <<>> ELSE << <<NGSI_TYPE_FIELD, PyStr(t)>> >>)
           \o << <<k, PyDict(<< <<"value", PyFloat(h)>> >>)>> >>)

NotificationData ==
    {NotificationEntity("1", "Bot", "speed", 1),
     NotificationEntity("2", "NotMe", "speed", 2),
     NotificationEntity("3", "Bot", "speed", 3),
     NotificationEntity("4", "Drone", "height", 4),
     NotificationEntity("5", "", "speed", 5)}

Notifications ==
    {[ty |-> "EntityUpdateNotification", data |-> d] :
        d \in UNION {[1..n -> NotificationData] : n \in 0..MaxData}}

\* Quantum Leap query results: the index, the attribute payloads and the
\* entity type may each be missing, a timestamp may be unparsable, a payload
\* may lack its name or its values, and two payloads may share a name.
IndexVals ==
    {Absent,
     PyList(<<>>),
     PyList(<<PyStr("2022-03-28T18:03:18.923+00:00")>>),
     PyList(<<PyStr("2022-03-28T18:03:18.923+00:00"),
              PyStr("2022-03-28T18:03:20.458+00:00")>>),
     PyList(<<PyStr("yesterday")>>),
     PyList(<<PyStr("2022-03-28T18:03:18.923+00:00"), PyStr("yesterday")>>),
     PyList(<<PyInt(1), PyStr("2022-03-28T18:03:22.011+00:00")>>)}

AttrPayloads ==
    {PyDict(<< <<"attrName", PyStr("speed")>>,
               <<"values", PyList(<<PyFloat(3), PyFloat(5)>>)>> >>),
     PyDict(<< <<"attrName", PyStr("direction")>>,
               <<"values", PyList(<<PyStr("S")>>)>> >>),
     PyDict(<< <<"attrName", PyStr("speed")>>,
               <<"values", PyList(<<PyInt(7)>>)>> >>),
     PyDict(<< <<"attrName", PyStr("")>> >>),
     PyDict(<< <<"values", PyList(<<PyInt(1), PyInt(2), PyInt(3)>>)>> >>),
     PyDict(<< <<"attrName", PyStr("direction")>> >>),
     PyDict(<< <<"attrName", PyStr("index")>>, <<"values", PyList(<<>>)>> >>),
     PyDict(<< <<"attrName", PyStr("copy")>>, <<"values", PyList(<<>>)>> >>)}

AttributesVals ==
    {Absent} \cup {PyList(a) : a \in UNION {[1..n -> AttrPayloads] : n \in 0..MaxAttrs}}

QueryResults ==
    {PyNone} \cup
    {PyDict(PairsOf(<<"entityType", "index", "attributes">>, <<t, x, a>>, 1)) :
        t \in {Absent, PyStr("Bot")}, x \in IndexVals, a \in AttributesVals}

\* ------------------------------------------------------------ state
VARIABLES
    input,  \* the data the run starts from
    op,     \* the operation called last ("input" before the first call)
    cls,    \* the class it is called on ("" when on none)
    arg,    \* its argument
    ret,    \* its outcome
    heap,   \* the objects alive
    made    \* the operation that built each of them

vars == <<input, op, cls, arg, ret, heap, made>>

\* A reference to the i-th entity object.
Ref(i) == [ty |-> "ref", at |-> i]

\* ------------------------------------------------------------ dictionaries
\* A KeyValue is the pair <<key, value>> it holds.
\* kv.read(data): the pair afterwards, whose value is data.get(key), which
\* is also what the call returns.
read(kv, data) == <<kv[1], DictGet(data, kv[1], PyNone)>>

\* kv.add(data): the dict afterwards; it is changed in place and returned.
add(kv, data) == DictSet(data, kv[1], kv[2])

\* add_to_dict(*args, data=given) on the dicts of store: given is the
\* reference of the caller's dict, or None when data is not specified.
\* data = data if data else {} takes the caller's dict when it is truthy,
\* that is not empty, and a new dict otherwise; each kv.add(data) then sets
\* data[key] = value.  res is the dict returned, cells the store afterwards.
add_to_dict(args, given, store) ==
    LET kept == ~IsNone(given) /\ store[given.at].sub # <<>>
        target == IF kept THEN given ELSE Ref(Len(store) + 1)
        base == IF kept THEN store ELSE Append(store, PyDict(<<>>))
        RECURSIVE added(_, _)
        added(d, i) == IF i > Len(args) THEN d
                       ELSE added(add(args[i], d), i + 1)
    IN  [res |-> target,
         cells |-> [base EXCEPT ![target.at] = added(base[target.at], 1)]]

\* ------------------------------------------ series of an entity type
\* For from_quantumleap_type_format the lists that can be shared are
\* objects: cell k of the store holds a list and Ref(k), in place of a
\* list, is that list.
Deref(store, v) == IF v.ty = "ref" THEN store[v.at] ELSE v

\* dynamic_model(index=tix) keeping the defaults of the class as they are:
\* each field is the very list the class was given.
instantiate_sharing_defaults(store, series) ==
    LET base == Len(store)
        n == Len(series.fields)
    IN  [cells |-> store \o <<PyList(series.index)>>
                    \o [j \in 1..n |-> Deref(store, series.fields[j][2])],
         obj |-> [series EXCEPT
                    !.index = Ref(base + 1),
                    !.fields = [j \in 1..n |->
                        <<series.fields[j][1],
                          IF series.fields[j][2].ty = "ref"
                          THEN series.fields[j][2] ELSE Ref(base + 1 + j)>>]]]

\* dynamic_model(index=tix): Pydantic validates the index into a new list
\* and gives the instance a copy of the default of every other field.
instantiate(store, series) ==
    LET base == Len(store)
        n == Len(series.fields)
    IN  [cells |-> store \o <<PyList(series.index)>>
                    \o [j \in 1..n |-> Deref(store, series.fields[j][2])],
         obj |-> [series EXCEPT
                    !.index = Ref(base + 1),
                    !.fields = [j \in 1..n |->
                        <<series.fields[j][1], Ref(base + 1 + j)>>]]]

\* ec = e; ec[k] = v: the caller's dict itself is written to.
set_in_place(e, k, v) == [orig |-> DictSet(e, k, v), copy |-> DictSet(e, k, v)]

\* ec = dict(e); ec[k] = v: the caller's dict and the changed copy.
copy_and_set(e, k, v) == [orig |-> e, copy |-> DictSet(e, k, v)]

\* The key taken from the entity type.
entity_key_by_type(ec) == DictGet(ec, "entityType", PyStr("")).s

\* id = ec.get('entityId', '')
entity_key(ec) == DictGet(ec, "entityId", PyStr("")).s

\* A series stored only under a key that is new.
put_series_if_new(series_dict, id, series) ==
    IF HasKey(series_dict, id) THEN series_dict ELSE DictSet(series_dict, id, series)

\* series_dict[id] = series
put_series(series_dict, id, series) == DictSet(series_dict, id, series)

\* The loop of from_quantumleap_type_format from entry i on: the outcome,
\* the caller's entries and the store after it.
RECURSIVE type_format_steps(_, _, _, _, _)
type_format_steps(etype, entities, i, series_dict, store) ==
    IF i > Len(entities)
    THEN [res |-> Ok(series_dict), entries |-> entities, cells |-> store]
    ELSE LET c == copy_and_set(entities[i], "entityType", etype)
             id == entity_key(c.copy)
             series == from_quantumleap_format(c.copy)
             after == [entities EXCEPT ![i] = c.orig]
         IN  IF ~IsOk(series)
             THEN [res |-> series, entries |-> after, cells |-> store]
             ELSE type_format_steps(
                      etype, after, i + 1,
                      put_series(series_dict, id, instantiate(store, series.val).obj),
                      instantiate(store, series.val).cells)

\* EntitySeries.from_quantumleap_type_format: the outcome, the caller's
\* document and the store after the call.
from_quantumleap_type_format(entity_type_query_result, store) ==
    IF entity_type_query_result.ty # "dict"
    THEN [res |-> Raise("AttributeError"), caller |-> entity_type_query_result,
          cells |-> store]
    ELSE LET r == type_format_steps(
                      DictGet(entity_type_query_result, "entityType", PyStr("")),
                      DictGet(entity_type_query_result, "entities", PyList(<<>>)).items,
                      1, PyDict(<<>>), store)
         IN  [res |-> r.res,
              caller |-> IF HasKey(entity_type_query_result, "entities")
                      THEN DictSet(entity_type_query_result, "entities",
                                   PyList(r.entries))
                      ELSE entity_type_query_result,
              cells |-> r.cells]

\* A returned series with its lists in place of the references to them.
SeriesValue(store, series) ==
    [series EXCEPT
        !.index = store[series.index.at].items,
        !.fields = [j \in 1..Len(series.fields) |->
                      <<series.fields[j][1], store[series.fields[j][2].at]>>]]

\* The entries of a type query result.
EntitiesOf(doc) == DictGet(doc, "entities", PyList(<<>>)).items

\* The document with the values of payload j of entry i, where the payload
\* has values, replaced by f[<<i, j>>].
MapValues(doc, f) ==
    IF doc.ty # "dict" \/ ~HasKey(doc, "entities") THEN doc
    ELSE DictSet(doc, "entities", PyList(
        [i \in 1..Len(EntitiesOf(doc)) |->
            LET e == EntitiesOf(doc)[i]
            IN  IF ~HasKey(e, "attributes") THEN e
                ELSE DictSet(e, "attributes", PyList(
                    [j \in 1..Len(AttributesOf(e)) |->
                        LET p == AttributesOf(e)[j]
                        IN  IF ~HasKey(p, "values") THEN p
                            ELSE DictSet(p, "values", f[<<i, j>>])]))]))

\* The caller's document in memory.  Cell (i - 1) * MaxAttrs + j is for the
\* values of payload j of entry i; when the document shares its lists,
\* payloads with equal values hold one list, that of the first of them.
CellOf(i, j) == (i - 1) * MaxAttrs + j

ValuesAt(doc, i, j) ==
    IF /\ i \in 1..Len(EntitiesOf(doc))
       /\ j \in 1..Len(AttributesOf(EntitiesOf(doc)[i]))
    THEN DictGet(AttributesOf(EntitiesOf(doc)[i])[j], "values", Absent)
    ELSE Absent

Load(doc, shared) ==
    LET n == IF doc.ty = "dict" THEN Len(EntitiesOf(doc)) ELSE 0
        first(v) == CHOOSE k \in 1..(n * MaxAttrs) :
                        /\ \E i \in 1..n, j \in 1..MaxAttrs :
                              k = CellOf(i, j) /\ ValuesAt(doc, i, j) = v
                        /\ \A i \in 1..n, j \in 1..MaxAttrs :
                              ValuesAt(doc, i, j) = v => k <= CellOf(i, j)
        cell == [c \in (1..n) \X (1..MaxAttrs) |->
                    Ref(IF shared THEN first(ValuesAt(doc, c[1], c[2]))
                        ELSE CellOf(c[1], c[2]))]
    IN  [caller |-> MapValues(doc, cell),
         cells |-> [k \in 1..(n * MaxAttrs) |->
                      IF \E i \in 1..n, j \in 1..MaxAttrs :
                            k = CellOf(i, j) /\ ValuesAt(doc, i, j) # Absent
                      THEN LET c == CHOOSE c \in (1..n) \X (1..MaxAttrs) :
                                        k = CellOf(c[1], c[2])
                           IN  ValuesAt(doc, c[1], c[2])
                      ELSE PyList(<<>>)]]

\* The caller's document with its lists in place of the references.
ResolveDoc(doc, store) ==
    LET n == IF doc.ty = "dict" THEN Len(EntitiesOf(doc)) ELSE 0
        held == [c \in (1..n) \X (1..MaxAttrs) |->
                    IF ValuesAt(doc, c[1], c[2]) = Absent THEN Absent
                    ELSE store[ValuesAt(doc, c[1], c[2]).at]]
    IN  MapValues(doc, held)

\* Type query results: entries may share an entityId or have none, may
\* hold an entityType of their own, and may be any of the documents
\* from_quantumleap_format takes.
Entry(id, x, a) == PyDict(PairsOf(<<"entityId", "index", "attributes">>, <<id, x, a>>, 1))

T1 == PyStr("2022-03-28T18:03:18.923+00:00")
T2 == PyStr("2022-03-28T18:03:20.458+00:00")
Speeds == PyDict(<< <<"attrName", PyStr("speed")>>,
                    <<"values", PyList(<<PyFloat(3), PyFloat(5)>>)>> >>)
Speed7 == PyDict(<< <<"attrName", PyStr("speed")>>,
                    <<"values", PyList(<<PyInt(7)>>)>> >>)
DirectionS == PyDict(<< <<"attrName", PyStr("direction")>>,
                        <<"values", PyList(<<PyStr("S")>>)>> >>)

TypeEntries ==
    {Entry(PyStr("urn:ngsi-ld:Bot:2"), PyList(<<T1, T2>>), PyList(<<Speeds>>)),
     Entry(PyStr("urn:ngsi-ld:Bot:3"), PyList(<<T1, T2>>), PyList(<<Speeds>>)),
     Entry(PyStr("urn:ngsi-ld:Bot:3"), PyList(<<T1>>), PyList(<<DirectionS, Speed7>>)),
     Entry(Absent, PyList(<<T1>>), PyList(<<Speed7>>)),
     Entry(Absent, Absent, Absent),
     Entry(PyStr("urn:ngsi-ld:Bot:2"), PyList(<<PyStr("yesterday")>>), PyList(<<Speed7>>)),
     DictSet(Entry(PyStr("urn:ngsi-ld:Bot:2"), PyList(<<T1>>), PyList(<<DirectionS>>)),
             "entityType", PyStr("Drone")),
     Entry(PyStr("urn:ngsi-ld:Bot:3"), PyList(<<T1>>),
           PyList(<< PyDict(<< <<"attrName", PyStr("direction")>> >>) >>))}

TypeQueryResults ==
    {PyNone} \cup
    {PyDict(PairsOf(<<"entityType", "entities">>, <<t, e>>, 1)) :
        t \in {Absent, PyStr("Bot")},
        e \in {Absent} \cup {PyList(q) :
                  q \in UNION {[1..n -> TypeEntries] : n \in 0..MaxEntities}}}

\* A JSON value and an attribute class to build from it.
InitAttr ==
    /\ input \in JVals
    /\ op = "input"
    /\ cls \in AttrKinds
    /\ arg = PyNone
    /\ ret = Ok(PyNone)
    /\ heap = <<>>
    /\ made = <<>>

\* A raw entity, in key-value or in full representation, or an update
\* notification, and an entity class to build from it.
InitEntity ==
    /\ input \in [repr : {"kv"}, raw : RawDicts(KvKeys, KvVals)]
                  \cup [repr : {"full"}, raw : RawDicts(FullKeys, FullVals)]
                  \cup [repr : {"notification"}, raw : Notifications]
    /\ op = "input"
    /\ cls \in EntityClasses
    /\ arg = PyNone
    /\ ret = Ok(PyNone)
    /\ heap = <<>>
    /\ made = <<>>

\* A Quantum Leap query result to build a series from, or a type query
\* result, whose lists the caller may share among its entries.
InitSeries ==
    /\ input \in [repr : {"ql"}, raw : QueryResults]
                  \cup [repr : {"qlt"}, raw : TypeQueryResults, shared : BOOLEAN]
    /\ op = "input"
    /\ cls = "EntitySeries"
    /\ arg = PyNone
    /\ ret = Ok(PyNone)
    /\ heap = <<>>
    /\ made = <<>>

\* The arguments of a call of wait_until: max_wait is -1.0, 0.0, 0.5, 0.7,
\* 1.0 or 2.0 and sleep_interval 2^-54, 0.1, 0.25, 0.3, 0.5 or 1.0.  Or a
\* pool of up to MaxPool devices with its generator.  Or up to MaxData entity summaries of Quantum Leap,
\* some without an entityId or an entityType, some with a value that is
\* not a text.  Or up to MaxExtra key-value
\* pairs to add to a dict, which is empty, not empty or not specified.
InitUtil ==
    /\ input \in [repr : {"dict"},
                  data : {Absent, PyDict(<<>>), PyDict(<< <<"y", PyInt(3)>> >>)},
                  kvs : UNION {[1..n -> {<<"my-key", PyInt(1)>>, <<"x", PyInt(2)>>,
                                         <<"y", PyInt(7)>>, <<"k", PyNone>>}] :
                                  n \in 0..MaxExtra}]
                 \cup
                 [repr : {"summaries"},
                  raw : UNION {[1..n ->
                      {PyDict(<<>>),
                       PyDict(<< <<"x", PyInt(1)>> >>),
                       PyDict(<< <<"entityId", PyStr("e:1")>> >>),
                       PyDict(<< <<"entityType", PyStr("Bot")>> >>),
                       PyDict(<< <<"entityId", PyStr("e:1")>>,
                                 <<"entityType", PyStr("Bot")>> >>),
                       PyDict(<< <<"entityType", PyStr("Drone")>>,
                                 <<"entityId", PyStr("e:2")>> >>),
                       PyDict(<< <<"entityId", PyNone>>,
                                 <<"entityType", PyStr("Bot")>> >>),
                       PyDict(<< <<"entityId", PyStr("e:3")>>,
                                 <<"entityType", JList>> >>)}] :
                      n \in 0..MaxData}]
                 \cup
                 [repr : {"factory"}, how_many : 0..MaxPool,
                  generator : {"mk_bot", "new_device_entity"}]
                 \cup
                 [repr : {"wait"},
                  max_wait : {[sg |-> -1, hi |-> 134217728, lo |-> 0],
                              [sg |-> 0, hi |-> 0, lo |-> 0],
                              [sg |-> 1, hi |-> 67108864, lo |-> 0],
                              [sg |-> 1, hi |-> 93952409, lo |-> 161061272],
                              [sg |-> 1, hi |-> 134217728, lo |-> 0],
                              [sg |-> 1, hi |-> 268435456, lo |-> 0]},
                  sleep_interval : {[sg |-> 1, hi |-> 0, lo |-> 2],
                                    [sg |-> 1, hi |-> 13421772, lo |-> 214748365],
                                    [sg |-> 1, hi |-> 33554432, lo |-> 0],
                                    [sg |-> 1, hi |-> 40265318, lo |-> 107374182],
                                    [sg |-> 1, hi |-> 67108864, lo |-> 0],
                                    [sg |-> 1, hi |-> 134217728, lo |-> 0]}]
    /\ op = "input"
    /\ cls = "util"
    /\ arg = PyNone
    /\ ret = Ok(PyNone)
    /\ heap = <<>>
    /\ made = <<>>

Init == InitAttr \/ InitEntity \/ InitSeries \/ InitUtil

\* The state after a call that builds an entity, returns None or raises.
Built(name, c, res) ==
    /\ op' = name
    /\ cls' = c
    /\ arg' = input.raw
    /\ IF IsOk(res) /\ ~IsNone(res.val)
       THEN /\ heap' = <<res.val>>
            /\ made' = <<name>>
            /\ ret' = Ok(Ref(1))
       ELSE /\ heap' = <<>>
            /\ made' = <<>>
            /\ ret' = res
    /\ UNCHANGED input

JsonValToAttr ==
    /\ op = "input"
    /\ cls \in AttrKinds
    /\ op' = "json_val_to_attr"
    /\ cls' = ""
    /\ arg' = input
    /\ ret' = json_val_to_attr(input)
    /\ UNCHANGED <<input, heap, made>>

AttrNewCall ==
    /\ op = "input"
    /\ cls \in AttrKinds
    /\ op' = "new"
    /\ arg' = input
    /\ ret' = AttrNew(cls, input)
    /\ UNCHANGED <<input, cls, heap, made>>

\* c(**kw) as the tests and samplers call it: no type given.
Construct ==
    /\ op = "input"
    /\ cls \in EntityClasses
    /\ input.repr = "full"
    /\ ~HasKey(input.raw, NGSI_TYPE_FIELD)
    /\ Built("init", cls, EntityInit(cls, input.raw))

FromRaw ==
    /\ op = "input"
    /\ cls \in EntityClasses
    /\ input.repr = "full"
    /\ Built("from_raw", cls, from_raw(cls, input.raw))

FromRawKv ==
    /\ op = "input"
    /\ cls \in EntityClasses
    /\ input.repr = "kv"
    /\ Built("from_raw_kv", cls, from_raw_kv(cls, input.raw))

FromRawKvToDynEntity ==
    /\ op = "input"
    /\ cls \in EntityClasses
    /\ input.repr = "kv"
    /\ Built("from_raw_kv_to_dyn_entity", "", from_raw_kv_to_dyn_entity(input.raw))

\* The state after filter_entities: the entities of the returned list are
\* the objects alive, in the order of the list.
Filtered(res) ==
    /\ op' = "filter_entities"
    /\ arg' = input.raw
    /\ IF IsOk(res)
       THEN /\ heap' = res.val
            /\ made' = [i \in 1..Len(res.val) |-> "filter_entities"]
            /\ ret' = Ok(PyList([i \in 1..Len(res.val) |-> Ref(i)]))
       ELSE /\ heap' = <<>>
            /\ made' = <<>>
            /\ ret' = res
    /\ UNCHANGED <<input, cls>>

FilterEntities ==
    /\ op = "input"
    /\ cls \in EntityClasses
    /\ input.repr = "notification"
    /\ Filtered(filter_entities(input.raw, cls))

\* The objects that are entities: a series has none of BaseEntity's methods.
IsEntity(o) == o.ty \notin {"EntitySeries", "list", "dict"}

\* set_id_with_type_prefix assigning the id on a copy and returning that.
set_id_on_copy(h, i, unique_suffix) ==
    [heap |-> Append(h, set_id_with_type_prefix(h[i], unique_suffix)),
     ret |-> Ok(Ref(Len(h) + 1))]

\* entity.set_id_with_type_prefix(suffix) on the i-th object of the heap:
\* the object is updated in place and is what the call returns.
set_id_call(h, i, unique_suffix) ==
    [heap |-> [h EXCEPT ![i] = set_id_with_type_prefix(h[i], unique_suffix)],
     ret |-> Ok(Ref(i))]

SetIdWithTypePrefix ==
    \E i \in 1..Len(heap), unique_suffix \in Suffixes :
        LET r == set_id_call(heap, i, unique_suffix)
        IN  /\ IsEntity(heap[i])
            /\ Len(heap) <= MaxObjs
            /\ op' = "set_id_with_type_prefix"
            /\ arg' = [self |-> Ref(i), suffix |-> unique_suffix, was |-> heap[i]]
            /\ heap' = r.heap
            /\ ret' = r.ret
            /\ made' = made \o [k \in 1..(Len(r.heap) - Len(heap)) |-> "copy"]
            /\ UNCHANGED <<input, cls>>

ToJson ==
    \E i \in 1..Len(heap) :
        /\ IsEntity(heap[i])
        /\ op' = "to_json"
        /\ arg' = [self |-> Ref(i)]
        /\ ret' = Ok(to_json(heap[i]))
        /\ UNCHANGED <<input, cls, heap, made>>

\* The JSON an entity of a declared class was just written to, parsed and
\* given to from_raw of that class.
Reparsed(res) ==
    LET built == IsOk(res) /\ ~IsNone(res.val)
    IN  /\ op' = "from_raw(to_json)"
        /\ arg' = [self |-> arg.self, was |-> heap[arg.self.at],
                   by |-> made[arg.self.at]]
        /\ ret' = IF built THEN Ok(Ref(1)) ELSE res
        /\ heap' = IF built THEN <<res.val>> ELSE <<>>
        /\ made' = IF built THEN <<"from_raw">> ELSE <<>>
        /\ UNCHANGED <<input, cls>>

FromRawOfJson ==
    /\ op = "to_json"
    /\ cls \in EntityClasses
    /\ Reparsed(from_raw(cls, json_loads(ret.val)))

FromQuantumleapFormat ==
    /\ op = "input"
    /\ cls = "EntitySeries"
    /\ input.repr = "ql"
    /\ Built("from_quantumleap_format", cls, from_quantumleap_format(input.raw))

\* The state after from_quantumleap_type_format: arg is the caller's
\* document as the call left it, the heap holds the lists alive.
TypeFormatted(loaded, r) ==
    /\ op' = "from_quantumleap_type_format"
    /\ arg' = r.caller
    /\ ret' = r.res
    /\ heap' = r.cells
    /\ made' = [k \in 1..Len(r.cells) |->
                  IF k <= Len(loaded.cells) THEN "caller"
                  ELSE "from_quantumleap_type_format"]
    /\ UNCHANGED <<input, cls>>

FromQuantumleapTypeFormat ==
    /\ op = "input"
    /\ cls = "EntitySeries"
    /\ input.repr = "qlt"
    /\ TypeFormatted(Load(input.raw, input.shared),
                     from_quantumleap_type_format(
                         Load(input.raw, input.shared).caller,
                         Load(input.raw, input.shared).cells))

\* The caller appends a value to the index (field "index") or to an
\* attribute sequence of one of the series it was returned.
AppendToSeries ==
    /\ op = "from_quantumleap_type_format"
    /\ IsOk(ret)
    /\ \E p \in 1..Len(ret.val.sub) :
        \E target \in {<<"index", ret.val.sub[p][2].index>>}
                       \cup {ret.val.sub[p][2].fields[j] :
                                j \in 1..Len(ret.val.sub[p][2].fields)} :
            /\ op' = "append"
            /\ arg' = [caller |-> arg, key |-> ret.val.sub[p][1], field |-> target[1]]
            /\ heap' = [heap EXCEPT ![target[2].at].items = Append(@, PyInt(0))]
            /\ UNCHANGED <<input, cls, ret, made>>

\* wait_until is called: time_left_to_wait = max_wait.
WaitUntil ==
    /\ cls = "util"
    /\ op = "input"
    /\ input.repr = "wait"
    /\ op' = "wait_until"
    /\ arg' = [pc |-> "while", time_left_to_wait |-> input.max_wait,
               results |-> <<>>, res |-> Ok(PyNone)]
    /\ UNCHANGED <<input, cls, ret, heap, made>>

\* One round of the while loop, with what action does in it; the calls of
\* action are counted up to MaxCalls.
WaitUntilLoop ==
    /\ op = "wait_until"
    /\ arg.pc = "while"
    /\ Len(arg.results) < MaxCalls
    /\ \E stop \in {"True", "False", "raise"} :
          /\ arg' = wait_until_step(arg, input.sleep_interval, stop)
          /\ ret' = arg'.res
    /\ UNCHANGED <<input, op, cls, heap, made>>

\* EntityFactory.with_numeric_suffixes(how_many, generator), which
\* DevicePoolSampler(pool_size, orion) calls with its pool_size.
WithNumericSuffixes ==
    /\ cls = "util"
    /\ op = "input"
    /\ input.repr = "factory"
    /\ op' = "with_numeric_suffixes"
    /\ ret' = with_numeric_suffixes(input.how_many, input.generator)
    /\ arg' = IF IsOk(ret') THEN [self |-> ret'.val] ELSE PyNone
    /\ UNCHANGED <<input, cls, heap, made>>

\* The calls that make one entity.  They are made while no sample and no
\* send_device_readings is in progress, and until MaxPool entities
\* of constant values or MaxDraws entities of random values were made.
NewEntity ==
    /\ cls = "util"
    /\ input.repr = "factory"
    /\ "self" \in DOMAIN arg
    /\ arg.self.ty = "EntityFactory"
    /\ op # "sample"
    /\ op = "send_device_readings" => arg.pc = "done"
    /\ Len(heap) < (IF arg.self.generator = "mk_bot" THEN MaxPool ELSE MaxDraws)
    /\ \E suffix_index \in (-MaxPool - 1)..MaxPool, pick \in Picks :
          /\ op' = "new_entity"
          /\ arg' = [self |-> arg.self, index |-> suffix_index, before |-> heap]
          /\ IF IsOk(new_entity(arg.self, suffix_index, pick))
             THEN /\ heap' = Append(heap, new_entity(arg.self, suffix_index, pick).val)
                  /\ made' = Append(made, "new_entity")
                  /\ ret' = Ok(Ref(Len(heap) + 1))
             ELSE /\ ret' = new_entity(arg.self, suffix_index, pick)
                  /\ UNCHANGED <<heap, made>>
    /\ UNCHANGED <<input, cls>>

\* pool.new_batch(), as entity_batch(pool) calls it on a new factory for
\* every list it yields, one call after the other.
NewBatch ==
    /\ cls = "util"
    /\ input.repr = "factory"
    /\ op \in {"with_numeric_suffixes", "new_batch"}
    /\ "self" \in DOMAIN arg
    /\ arg.self.ty = "EntityFactory"
    /\ Len(heap) <= (IF arg.self.generator = "mk_bot" THEN MaxPool
                      ELSE MaxDraws - 1)
    /\ \E picks \in [1..Len(arg.self.suffixes) -> Picks] :
          /\ op' = "new_batch"
          /\ arg' = [self |-> arg.self, before |-> heap,
                     previous |-> IF op = "new_batch" THEN ret.val ELSE PyNone]
          /\ heap' = heap \o new_batch(arg.self, picks)
          /\ made' = made \o [k \in 1..(Len(heap') - Len(heap)) |-> "new_batch"]
          /\ ret' = Ok(PyList([k \in 1..(Len(heap') - Len(heap)) |->
                                  Ref(Len(heap) + k)]))
    /\ UNCHANGED <<input, cls>>

MakeDeviceEntity ==
    /\ cls = "util"
    /\ input.repr = "factory"
    /\ "self" \in DOMAIN arg
    /\ arg.self.ty = "EntityFactory"
    /\ op # "sample"
    /\ op = "send_device_readings" => arg.pc = "done"
    /\ Len(heap) < (IF arg.self.generator = "mk_bot" THEN MaxPool ELSE MaxDraws)
    /\ \E nid \in -1..(MaxPool + 1), pick \in Picks :
          /\ op' = "make_device_entity"
          /\ arg' = [self |-> arg.self, index |-> nid, before |-> heap]
          /\ IF IsOk(make_device_entity(arg.self, nid, pick))
             THEN /\ heap' = Append(heap, make_device_entity(arg.self, nid, pick).val)
                  /\ made' = Append(made, "make_device_entity")
                  /\ ret' = Ok(Ref(Len(heap) + 1))
             ELSE /\ ret' = make_device_entity(arg.self, nid, pick)
                  /\ UNCHANGED <<heap, made>>
    /\ UNCHANGED <<input, cls>>

\* send_device_readings(nid) up to its call of upsert_entity: the entity
\* make_device_entity(nid) returns is given to upsert_entity (upserted
\* holds it), or the assertion of make_device_entity ends the call.
SendDeviceReadings ==
    /\ cls = "util"
    /\ input.repr = "factory"
    /\ "self" \in DOMAIN arg
    /\ arg.self.ty = "EntityFactory"
    /\ op # "sample"
    /\ op = "send_device_readings" => arg.pc = "done"
    /\ Len(heap) < (IF arg.self.generator = "mk_bot" THEN MaxPool ELSE MaxDraws)
    /\ \E nid \in -1..(MaxPool + 1), pick \in Picks :
          /\ op' = "send_device_readings"
          /\ IF IsOk(make_device_entity(arg.self, nid, pick))
             THEN /\ heap' = Append(heap, make_device_entity(arg.self, nid, pick).val)
                  /\ made' = Append(made, "send_device_readings")
                  /\ arg' = [self |-> arg.self, index |-> nid, before |-> heap,
                             upserted |-> << Ref(Len(heap) + 1) >>,
                             pc |-> "upsert"]
                  /\ ret' = ret
             ELSE /\ ret' = make_device_entity(arg.self, nid, pick)
                  /\ arg' = [self |-> arg.self, index |-> nid, before |-> heap,
                             upserted |-> <<>>, pc |-> "done"]
                  /\ UNCHANGED <<heap, made>>
    /\ UNCHANGED <<input, cls>>

\* The rest of send_device_readings: upsert_entity ends as Orion's reply
\* has it, with HTTPError, which ends send_device_readings too, or with a
\* return, and then the entity that was sent is returned.
SendDeviceReadingsReturn ==
    /\ op = "send_device_readings"
    /\ arg.pc = "upsert"
    /\ \E reply \in {"ok", "HTTPError"} :
          ret' = IF reply = "ok" THEN Ok(arg.upserted[1]) ELSE Raise(reply)
    /\ arg' = [arg EXCEPT !.pc = "done"]
    /\ UNCHANGED <<input, op, cls, heap, made>>

\* sample(samples_n, sampling_rate) is called on a new sampler, for up to
\* MaxSamples samples and a rate of -1.0, 0.0 or 0.5 seconds.  The entities
\* go to Orion and the sampler keeps none of them.
Sample ==
    /\ cls = "util"
    /\ input.repr = "factory"
    /\ "self" \in DOMAIN arg
    /\ arg.self.ty = "EntityFactory"
    /\ op = "with_numeric_suffixes"
    /\ \E samples_n \in 0..MaxSamples,
          sampling_rate \in {PyFloat(-2), PyFloat(0), PyFloat(1)} :
          /\ op' = "sample"
          /\ arg' = [self |-> arg.self, samples_n |-> samples_n,
                     sampling_rate |-> sampling_rate, calls |-> 0,
                     sent |-> <<>>, pc |-> "for", res |-> Ok(PyNone)]
    /\ UNCHANGED <<input, cls, ret, heap, made>>

\* A step of sample: the return after the last round, a round of the for
\* loop up to its call of upsert_entities, for which the generator draws
\* the readings of every device, or the rest of the round from the return
\* of upsert_entities on.
SampleLoop ==
    /\ op = "sample"
    /\ arg.pc # "done"
    /\ \E picks \in IF arg.pc = "for" /\ arg.calls < arg.samples_n
                    THEN [1..Len(arg.self.suffixes) -> Picks]
                    ELSE {<<>>},
          reply \in IF arg.pc = "upsert" THEN {"ok", "HTTPError"} ELSE {"ok"} :
          /\ arg' = sample_step(arg, picks, reply)
          /\ ret' = arg'.res
    /\ UNCHANGED <<input, op, cls, heap, made>>

\* from_entity_summaries(xs): the list of the new entities, or the
\* exception it ends with, which leaves no entity to the caller.
FromEntitySummaries ==
    /\ cls = "util"
    /\ op = "input"
    /\ input.repr = "summaries"
    /\ op' = "from_entity_summaries"
    /\ arg' = PyList(input.raw)
    /\ IF IsOk(from_entity_summaries(input.raw))
       THEN /\ heap' = from_entity_summaries(input.raw).val
            /\ made' = [i \in 1..Len(heap') |-> "from_entity_summaries"]
            /\ ret' = Ok(PyList([i \in 1..Len(heap') |-> Ref(i)]))
       ELSE /\ heap' = <<>>
            /\ made' = <<>>
            /\ ret' = from_entity_summaries(input.raw)
    /\ UNCHANGED <<input, cls>>

\* add_to_dict(*kvs, data=d) with the caller's d as the first object alive,
\* or add_to_dict(*kvs).
AddToDict ==
    /\ cls = "util"
    /\ op = "input"
    /\ input.repr = "dict"
    /\ op' = "add_to_dict"
    /\ arg' = [kvs |-> input.kvs,
               data |-> IF input.data = Absent THEN PyNone ELSE Ref(1)]
    /\ heap' = add_to_dict(input.kvs, arg'.data,
                           IF input.data = Absent THEN <<>> ELSE <<input.data>>).cells
    /\ ret' = Ok(add_to_dict(input.kvs, arg'.data,
                             IF input.data = Absent THEN <<>> ELSE <<input.data>>).res)
    /\ made' = [i \in 1..Len(heap') |->
                   IF i = 1 /\ input.data # Absent THEN "caller" ELSE "add_to_dict"]
    /\ UNCHANGED <<input, cls>>

\* kv.read(d) of one of the pairs on the caller's dict d.
KeyValueRead ==
    /\ cls = "util"
    /\ op = "input"
    /\ input.repr = "dict"
    /\ input.data # Absent
    /\ \E i \in 1..Len(input.kvs) :
          /\ op' = "read"
          /\ arg' = [kv |-> read(input.kvs[i], input.data), data |-> Ref(1)]
          /\ ret' = Ok(arg'.kv[2])
    /\ heap' = <<input.data>>
    /\ made' = <<"caller">>
    /\ UNCHANGED <<input, cls>>

\* kv.add(d) on the caller's dict d, of one of the pairs or of the pair
\* that has just read its value from d.
KeyValueAdd ==
    /\ cls = "util"
    /\ input.repr = "dict"
    /\ input.data # Absent
    /\ \/ /\ op = "input"
          /\ \E i \in 1..Len(input.kvs) :
                /\ arg' = [kv |-> input.kvs[i], data |-> Ref(1)]
                /\ heap' = << add(input.kvs[i], input.data) >>
       \/ /\ op = "read"
          /\ arg' = arg
          /\ heap' = << add(arg.kv, heap[1]) >>
    /\ op' = "add"
    /\ ret' = Ok(Ref(1))
    /\ made' = <<"caller">>
    /\ UNCHANGED <<input, cls>>

NextAttr ==
    \/ JsonValToAttr
    \/ AttrNewCall

NextEntity ==
    \/ Construct
    \/ FromRaw
    \/ FromRawKv
    \/ FromRawKvToDynEntity
    \/ FilterEntities
    \/ SetIdWithTypePrefix
    \/ ToJson
    \/ FromRawOfJson

NextSeries ==
    \/ FromQuantumleapFormat
    \/ FromQuantumleapTypeFormat
    \/ AppendToSeries

NextUtil ==
    \/ WaitUntil
    \/ WaitUntilLoop
    \/ WithNumericSuffixes
    \/ NewEntity
    \/ NewBatch
    \/ MakeDeviceEntity
    \/ SendDeviceReadings
    \/ SendDeviceReadingsReturn
    \/ Sample
    \/ SampleLoop
    \/ FromEntitySummaries
    \/ AddToDict
    \/ KeyValueRead
    \/ KeyValueAdd

Next ==
    \/ NextAttr
    \/ NextEntity
    \/ NextSeries
    \/ NextUtil

Spec == Init /\ [][Next]_vars
SpecAttr == InitAttr /\ [][NextAttr]_vars
SpecEntity == InitEntity /\ [][NextEntity]_vars
SpecSeries == InitSeries /\ [][NextSeries]_vars
SpecUtil == InitUtil /\ [][NextUtil]_vars

\* ------------------------------------------------------------ properties
\* getattr(entity, k) for a declared attribute k.
GetAttr(e, k) == e.attrs[CHOOSE i \in 1..Len(e.attrs) : e.attrs[i][1] = k][2]

\* a == b of two entities: Pydantic compares a.dict() with b.dict(), that
\* is the ids, the types and every attribute, None or the dict of its type
\* and value.  Two values of a dict are equal when they are the same object
\* or Python's == says so: a nan equals the very same nan and no other.
\* The nan float() made while an entity was built belongs to that entity,
\* so a and b are the same entity, or built one from the other, when both
\* hold it.
EntityEq(a, b) ==
    /\ a.id = b.id
    /\ a.type = b.type
    /\ Len(a.attrs) = Len(b.attrs)
    /\ \A i \in 1..Len(a.attrs) :
          /\ a.attrs[i][1] = b.attrs[i][1]
          /\ IF IsNone(a.attrs[i][2]) \/ IsNone(b.attrs[i][2])
             THEN a.attrs[i][2] = b.attrs[i][2]
             ELSE /\ a.attrs[i][2].type = b.attrs[i][2].type
                  /\ \/ a.attrs[i][2].value = b.attrs[i][2].value
                     \/ PyEq(a.attrs[i][2].value, b.attrs[i][2].value)

\* The names of the attributes of e that are not None, as a set.
PresentNames(e) == {e.attrs[i][1] : i \in {j \in 1..Len(e.attrs) : ~IsNone(e.attrs[j][2])}}

\* The raw dict's type is the one class c binds.
TypeMatches(c, raw) ==
    HasKey(raw, NGSI_TYPE_FIELD) /\ Lookup(raw, NGSI_TYPE_FIELD) = PyStr(BoundType(c))

\* raw without the keys class c does not declare.
DeclaredOnly(c, raw) ==
    PyDict(SelectSeq(raw.sub,
                     LAMBDA p : \/ p[1] \in {NGSI_ID_FIELD, NGSI_TYPE_FIELD}
                                \/ \E i \in 1..Len(Fields(c)) : Fields(c)[i].name = p[1]))

\* C1: json_val_to_attr follows the rule table for every value: None gives
\* None, a bool a BoolAttr tagged Boolean, an int or a float a FloatAttr
\* tagged Number, a str a TextAttr tagged Text, a list an ArrayAttr tagged
\* Array, a dict a StructuredValueAttr tagged StructuredValue, anything else
\* None; and the value of a returned attribute equals the input.
C1_InferFollowsRuleTable ==
    op = "json_val_to_attr" =>
        /\ IsOk(ret)
        /\ CASE arg.ty = "bool" -> ret.val = MkAttr("BoolAttr", "Boolean", arg)
             [] arg.ty \in {"int", "float"} ->
                    /\ ret.val.ty = "FloatAttr"
                    /\ ret.val.type = "Number"
                    /\ PyEq(ret.val.value, arg)
             [] arg.ty = "str" -> ret.val = MkAttr("TextAttr", "Text", arg)
             [] arg.ty = "list" -> ret.val = MkAttr("ArrayAttr", "Array", arg)
             [] arg.ty = "dict" ->
                    ret.val = MkAttr("StructuredValueAttr", "StructuredValue", arg)
             [] OTHER -> ret.val = PyNone

\* C2: for every entity class, from_raw and from_raw_kv return None on a
\* raw dict whose type is missing or is not the class's bound type; they
\* neither raise nor return an entity.
C2_TypeMismatchGivesNone ==
    (/\ op \in {"from_raw", "from_raw_kv"}
     /\ ~TypeMatches(cls, arg))
        => ret = Ok(PyNone)

\* C3: from_raw_kv on a key-value dict of the class's type returns an entity
\* with the raw id in which every declared attribute whose raw value infers
\* to an attribute holds that value with the inferred type tag, and every
\* declared attribute whose raw value is missing, null or of an
\* unrecognised shape is None; the call does not fail.
C3_FromRawKvInfersDeclaredAttrs ==
    (/\ op = "from_raw_kv"
     /\ TypeMatches(cls, arg)
     /\ HasKey(arg, NGSI_ID_FIELD))
        => /\ ret = Ok(Ref(1))
           /\ Len(heap) = 1
           /\ heap[1].id = Lookup(arg, NGSI_ID_FIELD).s
           /\ \A i \in 1..Len(Fields(cls)) :
                LET k == Fields(cls)[i].name
                    a == json_val_to_attr(DictGet(arg, k, PyNone))
                IN  /\ IsOk(a)
                    /\ GetAttr(heap[1], k) = a.val

\* C4: from_raw on a full-representation dict of the class's type that the
\* class accepts copies the id and parses the declared attributes, and the
\* entity is the one the dict without its undeclared keys gives.
C4_FromRawParsesDeclaredOnly ==
    (/\ op = "from_raw"
     /\ TypeMatches(cls, arg)
     /\ IsOk(EntityInit(cls, arg)))
        => /\ ret = Ok(Ref(1))
           /\ Len(heap) = 1
           /\ heap[1].id = Lookup(arg, NGSI_ID_FIELD).s
           /\ heap[1] = EntityInit(cls, DeclaredOnly(cls, arg)).val

\* C5: the keys of to_json's output are exactly id, type and the names of
\* the attributes that are not None, and no member is a null.
C5_ToJsonOmitsUnset ==
    op = "to_json" =>
        LET e == heap[arg.self.at]
            ms == ret.val.members
        IN  /\ {ms[i][1] : i \in 1..Len(ms)}
                 = {NGSI_ID_FIELD, NGSI_TYPE_FIELD} \cup PresentNames(e)
            /\ Len(ms) = 2 + Cardinality(PresentNames(e))
            /\ \A i \in 1..Len(ms) :
                 /\ ms[i][2].jt # "null"
                 /\ \A j \in 1..Len(ms[i][2].members) :
                        ms[i][2].members[j][2].jt # "null"

\* An entity with one attribute set and one unset was written.
C5_Witness ==
    /\ op = "to_json"
    /\ PresentNames(heap[arg.self.at]) = {"speed"}
    /\ Len(heap[arg.self.at].attrs) = 2

\* C6: to_json writes id, then type, then the attributes that are not None
\* in the order the class declares them (for a dynamic entity, in the order
\* of the keys of the raw dict), each attribute as its type then its value.
C6_ToJsonKeyOrder ==
    op = "to_json" =>
        LET e == heap[arg.self.at]
            ms == ret.val.members
            order == IF cls \in EntityClasses
                     THEN [i \in 1..Len(Fields(cls)) |-> Fields(cls)[i].name]
                     ELSE [i \in 1..Len(input.raw.sub) |-> input.raw.sub[i][1]]
            expected == SelectSeq(order, LAMBDA n : n \in PresentNames(e))
        IN  /\ [i \in 1..Len(ms) |-> ms[i][1]]
                 = <<NGSI_ID_FIELD, NGSI_TYPE_FIELD>> \o expected
            /\ \A i \in 3..Len(ms) :
                 [j \in 1..Len(ms[i][2].members) |-> ms[i][2].members[j][1]]
                    = <<"type", "value">>

\* A dynamic entity whose raw dict had direction before speed, and id and
\* type last, was written.
C6_Witness ==
    /\ op = "to_json"
    /\ cls = ""
    /\ Len(ret.val.members) = 4
    /\ ret.val.members[3][1] = "direction"
    /\ ret.val.members[4][1] = "speed"
    /\ input.raw.sub[Len(input.raw.sub)][1] = NGSI_TYPE_FIELD

\* C7: set_id_with_type_prefix(suffix) returns the object it was called on,
\* whose id is now urn:ngsi-ld:<type>:<suffix> whatever it was before, and
\* changes neither its type nor its attributes nor any other object.
C7_SetIdInPlace ==
    [][op' = "set_id_with_type_prefix" =>
          LET i == arg'.self.at
          IN  /\ ret' = Ok(Ref(i))
              /\ Len(heap') = Len(heap)
              /\ heap'[i].id = "urn:ngsi-ld:" \o heap[i].type \o ":" \o arg'.suffix
              /\ heap'[i].type = heap[i].type
              /\ heap'[i].attrs = heap[i].attrs
              /\ heap'[i].ty = heap[i].ty
              /\ \A j \in 1..Len(heap) : j # i => heap'[j] = heap[j]]_vars

\* The id was set a second time, with another suffix.
C7_Witness ==
    /\ op = "set_id_with_type_prefix"
    /\ arg.suffix = "2"
    /\ arg.was.id = "urn:ngsi-ld:" \o arg.was.type \o ":1"
    /\ heap[arg.self.at].id = "urn:ngsi-ld:" \o arg.was.type \o ":2"

\* C8: when from_raw_kv built entity e, from_raw of the same class on the
\* parsed text of e.to_json() returns an entity equal to e.  It fails for an
\* entity with a nan that json.loads did not read, the caller's or the one
\* float() made of the text nan: the entity read back holds json's nan,
\* another object, and is not equal to e.
C8_RoundTrip ==
    (/\ op = "from_raw(to_json)"
     /\ arg.by = "from_raw_kv")
        => /\ ret = Ok(Ref(1))
           /\ Len(heap) = 1
           /\ heap[1].ty = arg.was.ty
           /\ EntityEq(heap[1], arg.was)

\* C9: from_raw_kv_to_dyn_entity on a key-value dict with an id and a type
\* returns an entity of a class named after the type, with that id and
\* type and exactly one attribute per other key whose value infers to an
\* attribute, holding the raw value and the inferred type tag.
C9_DynEntityAlwaysBuilt ==
    (/\ op = "from_raw_kv_to_dyn_entity"
     /\ HasKey(arg, NGSI_ID_FIELD)
     /\ HasKey(arg, NGSI_TYPE_FIELD))
        => /\ ret = Ok(Ref(1))
           /\ Len(heap) = 1
           /\ heap[1].ty = Lookup(arg, NGSI_TYPE_FIELD).s
           /\ heap[1].id = Lookup(arg, NGSI_ID_FIELD).s
           /\ heap[1].type = Lookup(arg, NGSI_TYPE_FIELD).s
           /\ \A i \in 1..Len(arg.sub) :
                LET k == arg.sub[i][1]
                    a == json_val_to_attr(arg.sub[i][2])
                IN  k \notin {NGSI_ID_FIELD, NGSI_TYPE_FIELD} =>
                        /\ IsOk(a)
                        /\ IF IsNone(a.val)
                           THEN k \notin PresentNames(heap[1])
                           ELSE /\ k \in PresentNames(heap[1])
                                /\ GetAttr(heap[1], k).type = a.val.type
                                /\ PyEq(GetAttr(heap[1], k).value, arg.sub[i][2])
           /\ \A k \in PresentNames(heap[1]) : HasKey(arg, k)

\* C10: from_quantumleap_format on a document with no index returns a
\* series whose index is empty and that has no attribute field, whatever
\* else the document holds.
C10_NoIndexGivesBareSeries ==
    (/\ op = "from_quantumleap_format"
     /\ arg.ty = "dict"
     /\ ~HasKey(arg, "index"))
        => /\ ret = Ok(Ref(1))
           /\ Len(heap) = 1
           /\ heap[1].index = <<>>
           /\ heap[1].fields = <<>>

\* Every timestamp of the document's index parses.
IndexParses(doc) ==
    \A i \in 1..Len(DictGet(doc, "index", PyList(<<>>)).items) :
        IsOk(fromisoformat(DictGet(doc, "index", PyList(<<>>)).items[i]))

\* No attribute payload of the document has a name that a series class
\* cannot take as a field.
NamesAccepted(doc) ==
    \A i \in 1..Len(AttributesOf(doc)) :
        DictGet(AttributesOf(doc)[i], "attrName", PyStr("")).s
            \notin ShadowedNames \cup {"index"}

\* An attribute payload with a name that is not empty and with values.
Complete(p) ==
    /\ HasKey(p, "attrName")
    /\ Lookup(p, "attrName") # PyStr("")
    /\ HasKey(p, "values")

\* C11: from_quantumleap_format skips every attribute payload that has no
\* attrName, an empty attrName or no values: the call does not fail and the
\* fields of the series are those of the complete payloads, each named
\* after attrName and holding its values.
C11_IncompletePayloadsSkipped ==
    (/\ op = "from_quantumleap_format"
     /\ arg.ty = "dict"
     /\ IndexParses(arg)
     /\ NamesAccepted(arg))
        => /\ ret = Ok(Ref(1))
           /\ Len(heap) = 1
           /\ LET complete == SelectSeq(AttributesOf(arg), Complete)
              IN  heap[1].fields
                    = merge_dicts([i \in 1..Len(complete) |->
                        PyDict(<< <<Lookup(complete[i], "attrName").s,
                                    Lookup(complete[i], "values")>> >>)]).sub

\* C12: every series from_quantumleap_format or from_quantumleap_type_format
\* returns is columnar: each attribute sequence is as long as the index.
C12_SeriesAreColumnar ==
    /\ (op = "from_quantumleap_format" /\ IsOk(ret)) =>
          \A j \in 1..Len(heap[1].fields) :
              Len(heap[1].fields[j][2].items) = Len(heap[1].index)
    /\ (op = "from_quantumleap_type_format" /\ IsOk(ret)) =>
          \A p \in 1..Len(ret.val.sub) :
              LET series == SeriesValue(heap, ret.val.sub[p][2])
              IN  \A j \in 1..Len(series.fields) :
                      Len(series.fields[j][2].items) = Len(series.index)

\* The timestamps of the documents that are ISO 8601.
RawTix ==
    {PyStr("2022-03-28T18:03:18.923+00:00"),
     PyStr("2022-03-28T18:03:20.458+00:00"),
     PyStr("2022-03-28T18:03:22.011+00:00")}

\* C13: when an element of the document's index is no parsable timestamp,
\* at whatever position, from_quantumleap_format raises and returns no
\* series.
C13_BadTimestampFailsCall ==
    (/\ op = "from_quantumleap_format"
     /\ arg.ty = "dict"
     /\ \E i \in 1..Len(DictGet(arg, "index", PyList(<<>>)).items) :
            Lookup(arg, "index").items[i] \notin RawTix)
        => /\ ~IsOk(ret)
           /\ heap = <<>>

\* The call failed on an index whose first timestamp parses and whose
\* second does not.
C13_Witness ==
    /\ op = "from_quantumleap_format"
    /\ arg.ty = "dict"
    /\ Len(DictGet(arg, "index", PyList(<<>>)).items) = 2
    /\ Lookup(arg, "index").items[1] \in RawTix
    /\ Lookup(arg, "index").items[2] \notin RawTix
    /\ ret = Raise("ValueError")

\* C14: from_quantumleap_format(None) raises and returns no series, while
\* from_quantumleap_format({}) returns the series with an empty index and
\* no attribute field.
C14_NoneIsNotEmpty ==
    /\ (op = "from_quantumleap_format" /\ arg = PyNone) =>
          /\ ret = Raise("AttributeError")
          /\ heap = <<>>
    /\ (op = "from_quantumleap_format" /\ arg = PyDict(<<>>)) =>
          /\ ret = Ok(Ref(1))
          /\ heap = <<MkSeries("Series", <<>>, <<>>)>>

\* from_quantumleap_format was called with None.
C14_Witness ==
    /\ op = "from_quantumleap_format"
    /\ arg = PyNone
    /\ ~IsOk(ret)

\* The entries of the type query result the run started from.
InputEntries == EntitiesOf(input.raw)

\* The position of the last entry of the input with entity id k.
LastWithKey(k) ==
    CHOOSE i \in 1..Len(InputEntries) :
        /\ DictGet(InputEntries[i], "entityId", PyStr("")).s = k
        /\ \A j \in (i + 1)..Len(InputEntries) :
              DictGet(InputEntries[j], "entityId", PyStr("")).s # k

\* Every entry of the input gives a series when from_quantumleap_format is
\* called on it alone.
EntriesConvert ==
    /\ input.raw.ty = "dict"
    /\ \A i \in 1..Len(InputEntries) : IsOk(from_quantumleap_format(InputEntries[i]))

\* C15: from_quantumleap_type_format returns a mapping with one key per
\* distinct entityId of the entries, and the series under a key has the
\* index and the attribute sequences from_quantumleap_format builds from
\* the entry of that id alone.
C15_OneSeriesPerEntity ==
    (/\ op = "from_quantumleap_type_format"
     /\ EntriesConvert)
        => /\ IsOk(ret)
           /\ Keys(ret.val) = {DictGet(InputEntries[i], "entityId", PyStr("")).s :
                                  i \in 1..Len(InputEntries)}
           /\ Len(ret.val.sub) = Cardinality(Keys(ret.val))
           /\ \A p \in 1..Len(ret.val.sub) :
                LET series == SeriesValue(heap, ret.val.sub[p][2])
                    own == from_quantumleap_format(
                               InputEntries[LastWithKey(ret.val.sub[p][1])]).val
                IN  /\ series.index = own.index
                    /\ series.fields = own.fields

\* Two entries with different ids and different data were converted.
C15_Witness ==
    /\ op = "from_quantumleap_type_format"
    /\ IsOk(ret)
    /\ Len(ret.val.sub) = 2
    /\ SeriesValue(heap, ret.val.sub[1][2]).fields
          # SeriesValue(heap, ret.val.sub[2][2]).fields

\* C16: after from_quantumleap_type_format the caller's document, its
\* entries included, has the keys and values it had before the call; no
\* entry has gained an entityType.
C16_TypeFormatKeepsDocument ==
    op = "from_quantumleap_type_format" =>
        /\ ResolveDoc(arg, heap) = input.raw
        /\ arg.ty = "dict" =>
              \A i \in 1..Len(EntitiesOf(arg)) :
                  Keys(EntitiesOf(arg)[i]) = Keys(InputEntries[i])

\* A document with a type and two entries that have none was converted.
C16_Witness ==
    /\ op = "from_quantumleap_type_format"
    /\ IsOk(ret)
    /\ HasKey(input.raw, "entityType")
    /\ Len(InputEntries) = 2
    /\ \A i \in 1..2 : ~HasKey(InputEntries[i], "entityType")
    /\ \A p \in 1..Len(ret.val.sub) : ret.val.sub[p][2].name = "BotSeries"

\* C17: in from_quantumleap_type_format an entry with no entityId is keyed
\* by the empty string, and a key several entries share holds the series
\* of the last of them in the order of the document.
C17_LastEntryWins ==
    (/\ op = "from_quantumleap_type_format"
     /\ EntriesConvert)
        => /\ IsOk(ret)
           /\ \A i \in 1..Len(InputEntries) :
                LET k == IF HasKey(InputEntries[i], "entityId")
                         THEN Lookup(InputEntries[i], "entityId").s ELSE ""
                    later == {j \in (i + 1)..Len(InputEntries) :
                                 DictGet(InputEntries[j], "entityId", PyStr("")).s = k}
                IN  /\ HasKey(ret.val, k)
                    /\ later = {} =>
                          LET series == SeriesValue(heap, Lookup(ret.val, k))
                              own == from_quantumleap_format(InputEntries[i]).val
                          IN  /\ series.index = own.index
                              /\ series.fields = own.fields

\* Two entries with different data, the first with the id of the second or
\* both with none, were converted.
C17_Witness ==
    /\ op = "from_quantumleap_type_format"
    /\ IsOk(ret)
    /\ Len(InputEntries) = 2
    /\ Len(ret.val.sub) = 1
    /\ ~HasKey(InputEntries[2], "entityId")
    /\ ret.val.sub[1][1] = ""
    /\ from_quantumleap_format(InputEntries[1]).val
          # from_quantumleap_format(InputEntries[2]).val

\* C18: the series returned by from_quantumleap_type_format are independent
\* of each other and of the input: appending to the index or to an
\* attribute sequence of one of them changes that series, and neither
\* another returned series nor the caller's document, also when entries
\* of the document share one values list.
C18_SeriesAreIndependent ==
    [][(op = "from_quantumleap_type_format" /\ op' = "append") =>
          /\ ResolveDoc(arg, heap) = input.raw
          /\ ResolveDoc(arg'.caller, heap') = input.raw
          /\ \A p \in 1..Len(ret.val.sub) :
                IF ret.val.sub[p][1] = arg'.key
                THEN SeriesValue(heap', ret.val.sub[p][2])
                        # SeriesValue(heap, ret.val.sub[p][2])
                ELSE SeriesValue(heap', ret.val.sub[p][2])
                        = SeriesValue(heap, ret.val.sub[p][2])]_vars

\* An attribute sequence of one of two returned series was appended to,
\* the two entries of the document sharing one values list.
C18_Witness ==
    /\ op = "append"
    /\ input.shared
    /\ Len(InputEntries) = 2
    /\ Len(ret.val.sub) = 2
    /\ AttributesOf(InputEntries[1]) # <<>>
    /\ AttributesOf(InputEntries[1]) = AttributesOf(InputEntries[2])
    /\ arg.field = "speed"
    /\ arg.key = ret.val.sub[1][1]

\* C19: filter_entities(C) returns exactly one entity for each element of
\* data whose type is the bound type of C, in the order of data, and
\* nothing for the other elements; a type mismatch is never an error.
C19_FilterKeepsMatchingInOrder ==
    op = "filter_entities" =>
        LET matching == SelectSeq(arg.data, LAMBDA d : TypeMatches(cls, d))
        IN  /\ IsOk(ret)
            /\ Len(ret.val.items) = Len(matching)
            /\ \A i \in 1..Len(matching) :
                  /\ heap[ret.val.items[i].at].ty = cls
                  /\ heap[ret.val.items[i].at].type = BoundType(cls)
                  /\ heap[ret.val.items[i].at].id = Lookup(matching[i], NGSI_ID_FIELD).s

\* The NGSI type tag that goes with the shape of a value.
TagOfShape(v) ==
    CASE v.ty = "bool" -> "Boolean"
      [] v.ty \in {"int", "float"} -> "Number"
      [] v.ty = "str" -> "Text"
      [] v.ty \in {"list", "tuple"} -> "Array"
      [] v.ty = "dict" -> "StructuredValue"
      [] OTHER -> ""

\* C20: every attribute an entity holds, however the entity was built, has
\* a type tag among Number, Text, Boolean, Array and StructuredValue, and
\* the tag is the one that goes with the shape of the attribute's value.
C20_TagAgreesWithValue ==
    \A i \in 1..Len(heap) :
        IsEntity(heap[i]) =>
            \A j \in 1..Len(heap[i].attrs) :
                LET a == heap[i].attrs[j][2]
                IN  ~IsNone(a) =>
                        /\ a.type \in {"Number", "Text", "Boolean", "Array",
                                       "StructuredValue"}
                        /\ a.type = TagOfShape(a.value)

\* C21: every entity has an id and a type that are strings; an entity of a
\* schema has the type the schema binds, after it was built from raw data
\* and after any set_id_with_type_prefix; and no attribute is held under
\* the names id or type.
C21_IdAndTypeReserved ==
    \A i \in 1..Len(heap) :
        IsEntity(heap[i]) =>
            /\ heap[i].id \in STRING
            /\ heap[i].type \in STRING
            /\ heap[i].ty \in EntityClasses => heap[i].type = BoundType(heap[i].ty)
            /\ heap[i].ty \notin EntityClasses \cup {"BaseEntity"}
                  => heap[i].type = heap[i].ty
            /\ \A j \in 1..Len(heap[i].attrs) :
                  heap[i].attrs[j][1] \notin {NGSI_ID_FIELD, NGSI_TYPE_FIELD}

\* An entity built by from_raw_kv from a dict with an id and a type, holding
\* an attribute, was given a new id.
C21_Witness ==
    /\ op = "set_id_with_type_prefix"
    /\ made[1] = "from_raw_kv"
    /\ HasKey(input.raw, NGSI_ID_FIELD)
    /\ HasKey(input.raw, NGSI_TYPE_FIELD)
    /\ heap[1].id # Lookup(input.raw, NGSI_ID_FIELD).s
    /\ PresentNames(heap[1]) # {}

\* C22: for each attribute kind K, K.new(None) returns None, and K.new(v)
\* for a v other than None of the value kind of K (a number for FloatAttr,
\* a text for TextAttr, a bool for BoolAttr, a list for ArrayAttr, a dict
\* for StructuredValueAttr) returns an attribute of K whose value is v and
\* whose type tag is the tag of K.
C22_NewWrapsValue ==
    op = "new" =>
        IF IsNone(arg) THEN ret = Ok(PyNone)
        ELSE (arg.ty # "tuple" /\ TagOfShape(arg) = AttrTypeTag(cls)) =>
                /\ IsOk(ret)
                /\ ret.val.ty = cls
                /\ ret.val.type = AttrTypeTag(cls)
                /\ PyEq(ret.val.value, arg)

\* C23: from_raw on a full representation whose type is the one the class
\* binds and in which what is given for a declared attribute is malformed,
\* that is neither null nor a dict with a value key, raises an error; it
\* returns neither an entity nor None.
C23_MalformedAttrFailsEntity ==
    LET Malformed(v) ==
            /\ ~IsNone(v)
            /\ IF v.ty = "dict" THEN ~HasKey(v, "value") ELSE TRUE
    IN  (/\ op = "from_raw"
         /\ TypeMatches(cls, arg)
         /\ \E i \in 1..Len(Fields(cls)) :
               /\ HasKey(arg, Fields(cls)[i].name)
               /\ Malformed(Lookup(arg, Fields(cls)[i].name)))
            => /\ ~IsOk(ret)
               /\ heap = <<>>

\* from_raw of BotEntity was given a Bot with an id whose speed has a type
\* and no value.
C23_Witness ==
    /\ op = "from_raw"
    /\ cls = "BotEntity"
    /\ TypeMatches(cls, arg)
    /\ HasKey(arg, NGSI_ID_FIELD)
    /\ DictGet(arg, "speed", PyNone) = PyDict(<< <<"type", PyStr("Number")>> >>)
    /\ ~HasKey(arg, "direction")
    /\ ret = Raise("ValidationError")

\* C24: wait_until returns normally exactly when a call of action returned
\* True, and right after the first such call: action is not called again
\* after it returned True and no assertion error is raised in that run.
C24_ReturnsAtFirstTrue ==
    op = "wait_until" =>
        /\ \A i \in 1..Len(arg.results) :
              arg.results[i] = "True" =>
                  /\ i = Len(arg.results)
                  /\ arg.pc = "done"
                  /\ ret = Ok(PyNone)
        /\ (arg.pc = "done" /\ ret = Ok(PyNone)) =>
              (arg.results # <<>> /\ arg.results[Len(arg.results)] = "True")

\* wait_until returned after action had returned False twice and then True.
C24_Witness ==
    /\ op = "wait_until"
    /\ arg.pc = "done"
    /\ arg.results = <<"False", "False", "True">>
    /\ ret = Ok(PyNone)

\* C25: wait_until ends for every max_wait and every sleep_interval above
\* zero: when action never returns True it is called ceil(max_wait /
\* sleep_interval) times, no time when max_wait is zero or less, and then an
\* AssertionError is raised; the call neither goes on beyond that number of
\* calls nor returns silently.  The quotient is that of the two numbers
\* taken exactly, counted here up to MaxCalls + 1.
C25_CallsCeilThenAsserts ==
    (/\ op = "wait_until"
     /\ \A i \in 1..Len(arg.results) : arg.results[i] = "False")
        => LET RECURSIVE Ceil(_, _, _)
               Ceil(h, l, n) ==
                   IF h < 0 \/ (h = 0 /\ l = 0) \/ n > MaxCalls THEN n
                   ELSE Ceil(h - input.sleep_interval.hi
                               - (IF l < input.sleep_interval.lo THEN 1 ELSE 0),
                             l - input.sleep_interval.lo
                               + (IF l < input.sleep_interval.lo THEN 268435456 ELSE 0),
                             n + 1)
               calls == IF input.max_wait.sg <= 0 THEN 0
                        ELSE Ceil(input.max_wait.hi, input.max_wait.lo, 0)
           IN  /\ Len(arg.results) <= calls
               /\ arg.pc = "done" =>
                     /\ ret = Raise("AssertionError")
                     /\ Len(arg.results) = calls

\* C26, as stated: when sample(samples_n, rate) has ended it has called
\* upsert_entities exactly samples_n times, one call after the other; each
\* call is given pool_size entities of which the k-th has the id
\* urn:ngsi-ld:type:k; and make_device_entity(nid) fails an assertion for
\* every nid outside 1..pool_size.  It fails for a sample that an
\* exception ends: sample(2, -1.0) has made one call when time.sleep
\* raises ValueError, and so has a sample whose first upsert_entities
\* raises.
C26_SampleMakesSamplesNCalls ==
    /\ op = "sample" =>
          /\ arg.calls <= arg.samples_n
          /\ arg.pc = "done" => arg.calls = arg.samples_n
          /\ arg.pc = "upsert" =>
                /\ Len(arg.sent) = input.how_many
                /\ \A k \in 1..Len(arg.sent) :
                      arg.sent[k].id
                          = "urn:ngsi-ld:" \o arg.sent[k].type \o ":" \o ToString(k)
    /\ (/\ op \in {"make_device_entity", "send_device_readings"}
        /\ arg.index \notin 1..input.how_many) =>
          /\ ret = Raise("AssertionError")
          /\ heap = arg.before

\* C26, amended: sample(samples_n, rate) calls upsert_entities one call
\* after the other and never more than samples_n times; a sample that
\* returns has made exactly samples_n calls, and one that an exception
\* ends (of upsert_entities, or ValueError of time.sleep for a negative
\* rate) has made at least one and ended in the round of its last call;
\* each call is given pool_size entities of which the k-th has the id
\* urn:ngsi-ld:type:k; and make_device_entity(nid), also when
\* send_device_readings calls it, fails an assertion for every nid outside
\* 1..pool_size, before an entity is made or sent.
C26_SampleSendsWholePool ==
    /\ op = "sample" =>
          /\ arg.calls <= arg.samples_n
          /\ (arg.pc = "done" /\ IsOk(ret)) => arg.calls = arg.samples_n
          /\ (arg.pc = "done" /\ ~IsOk(ret)) =>
                /\ arg.calls >= 1
                /\ ret \in {Raise("ValueError"), Raise("HTTPError")}
                /\ ret = Raise("ValueError") => arg.sampling_rate.h < 0
          /\ (arg.pc = "for" /\ arg.calls > 0) => arg.sampling_rate.h >= 0
          /\ arg.pc = "upsert" =>
                /\ arg.calls > 0
                /\ Len(arg.sent) = input.how_many
                /\ \A k \in 1..Len(arg.sent) :
                      arg.sent[k].id
                          = "urn:ngsi-ld:" \o arg.sent[k].type \o ":" \o ToString(k)
    /\ (/\ op \in {"make_device_entity", "send_device_readings"}
        /\ arg.index \notin 1..input.how_many) =>
          /\ ret = Raise("AssertionError")
          /\ heap = arg.before
          /\ op = "send_device_readings" => arg.upserted = <<>> /\ arg.pc = "done"

\* A sample of two rounds of a pool of two devices, which will return, is
\* in its second and last call of upsert_entities; the two entities of the
\* call have the same direction and different speeds.
C26_Witness ==
    /\ op = "sample"
    /\ arg.pc = "upsert"
    /\ arg.sampling_rate.h >= 0
    /\ input.how_many = 2
    /\ input.generator = "new_device_entity"
    /\ arg.samples_n = 2
    /\ arg.calls = 2
    /\ GetAttr(arg.sent[1], "direction") = GetAttr(arg.sent[2], "direction")
    /\ arg.sent[1].attrs # arg.sent[2].attrs
    /\ arg.sent[2].id = "urn:ngsi-ld:Bot:2"

\* C27: new_batch returns one newly generated entity for each suffix of the
\* factory, in the order of the suffixes: the id of the k-th is
\* urn:ngsi-ld:type:suffix with the k-th suffix, which is what entity_id
\* gives for its index; and with a generator of constant attribute values
\* each batch of entity_batch equals the one before it.
C27_BatchFollowsSuffixes ==
    op = "new_batch" =>
        /\ Len(ret.val.items) = Len(arg.self.suffixes)
        /\ \A k \in 1..Len(arg.before) : heap[k] = arg.before[k]
        /\ \A k \in 1..Len(ret.val.items) :
              /\ ret.val.items[k] = Ref(Len(arg.before) + k)
              /\ heap[ret.val.items[k].at].id
                    = "urn:ngsi-ld:" \o heap[ret.val.items[k].at].type
                          \o ":" \o arg.self.suffixes[k]
              /\ \A pick \in Picks :
                    new_entity(arg.self, k - 1, pick).val.id
                        = heap[ret.val.items[k].at].id
        /\ (arg.self.generator = "mk_bot" /\ arg.previous # PyNone) =>
              /\ Len(arg.previous.items) = Len(ret.val.items)
              /\ \A k \in 1..Len(ret.val.items) :
                    heap[arg.previous.items[k].at] = heap[ret.val.items[k].at]

\* entity_batch gave a second batch of two entities with constant values.
C27_Witness ==
    /\ op = "new_batch"
    /\ arg.self.generator = "mk_bot"
    /\ arg.previous # PyNone
    /\ Len(ret.val.items) = 2
    /\ Len(heap) = 4
    /\ heap[4].id = "urn:ngsi-ld:Bot:2"

\* C28: the factory of with_numeric_suffixes(how_many, g) has exactly the
\* suffixes 1..how_many, and new_entity(i) raises IndexError for every i
\* outside the bounds of that list, i >= how_many among them; the failed
\* call produces no entity.
C28_IndexOutOfBoundsRaises ==
    op = "new_entity" =>
        /\ arg.self.suffixes = [k \in 1..input.how_many |-> ToString(k)]
        /\ (arg.index >= input.how_many \/ arg.index < -input.how_many) =>
              /\ ret = Raise("IndexError")
              /\ heap = arg.before

\* new_entity(2) of a factory of two suffixes raised IndexError.
C28_Witness ==
    /\ op = "new_entity"
    /\ input.how_many = 2
    /\ arg.index = 2
    /\ ret = Raise("IndexError")

\* C29: from_entity_summaries returns a list with one BaseEntity, its id
\* the entityId and its type the entityType, for each summary that has
\* both keys, in the order of the input; a summary without one of the keys
\* is left out, and the list is empty when no summary is valid.  It fails
\* for a summary that has both keys and None or a list for one of them:
\* the call raises ValidationError where an entity or a skip is promised.
C29_SummariesWithBothKeys ==
    op = "from_entity_summaries" =>
        LET valid == SelectSeq(arg.items,
                               LAMBDA x : HasKey(x, "entityId") /\ HasKey(x, "entityType"))
        IN  /\ IsOk(ret)
            /\ ret.val.ty = "list"
            /\ Len(ret.val.items) = Len(valid)
            /\ \A i \in 1..Len(valid) :
                  /\ heap[ret.val.items[i].at].ty = "BaseEntity"
                  /\ heap[ret.val.items[i].at].id = Lookup(valid[i], "entityId").s
                  /\ heap[ret.val.items[i].at].type = Lookup(valid[i], "entityType").s

\* C30: add_to_dict(*kvs, data=d) adds the pairs to the dict d of the
\* caller and returns it: for every d given, an empty one too, d holds
\* every pair of kvs after the call (the last one of a key) and keeps its
\* other entries; a new dict is built only when data is not specified.
C30_AddsToCallersDict ==
    op = "add_to_dict" =>
        LET d == heap[ret.val.at]
        IN  /\ input.data # Absent => ret = Ok(Ref(1))
            /\ \A i \in 1..Len(input.kvs) :
                  (\A j \in (i + 1)..Len(input.kvs) : input.kvs[j][1] # input.kvs[i][1])
                      => /\ HasKey(d, input.kvs[i][1])
                         /\ Lookup(d, input.kvs[i][1]) = input.kvs[i][2]
            /\ input.data # Absent =>
                  \A k \in Keys(input.data) :
                      (\A i \in 1..Len(input.kvs) : input.kvs[i][1] # k)
                          => /\ HasKey(d, k)
                             /\ Lookup(d, k) = Lookup(input.data, k)
====
